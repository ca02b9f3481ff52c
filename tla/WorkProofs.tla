------------------------------ MODULE WorkProofs ------------------------------
(***************************************************************************)
(* Theorems about the notifications and the reports, for every value of    *)
(* the constants: the delivery rows implement AtMostOnceDelivery, the      *)
(* alarm about a wrong direction follows its signal, analyses and their    *)
(* rows survive each other and a restart, the report of a market agrees    *)
(* with the wallet, and a download of activities in pages misses no more   *)
(* than its pages can hide. MCWork runs the four models in one             *)
(* specification: its theorems are theorems about each of them, and the    *)
(* types of all four.                                                      *)
(***************************************************************************)
EXTENDS MCWork, CandleRangesProofs, SequenceTheorems

-----------------------------------------------------------------------------
(* Notifications: the inductive invariant *)

Calling    == {"send", "confirm", "give_up"}
Delivering == Calling \cup {"switch", "insert", "event"}
Closing    == {"result", "fetch", "persist", "check", "read"}
Ats        == Delivering \cup Closing \cup {"idle", "analyse", "broadcast"}
Batches    == {<< >>, <<"signal">>, <<"mismatch">>, <<"signal", "mismatch">>}
Statuses   == {"none", "sent", "error", "skipped_disabled"}

Records == [at : Ats, of : Candles \cup {NoOne}, result : {"none"} \cup Directions,
            kinds : Batches, status : Statuses, tries : Nat]

RowsTyped ==
  /\ signal \in [Candles -> {"none", "stored"} \cup Directions]
  /\ row \in [Keys -> [status : Statuses, sent_at : BOOLEAN]]
  /\ received \in [Keys -> Nat]
  /\ cache \in [Markets -> {"none"} \cup Directions]
  /\ worker \in [Workers -> Records]

\* What a worker has in hand.
InHand(w) ==
  /\ worker[w].at # "idle" => worker[w].of \in Candles
  /\ worker[w].at \in Closing => worker[w].of \in Markets
  /\ worker[w].at \in {"persist", "check", "read"} => worker[w].result \in Directions
  /\ At(w, "analyse") /\ worker[w].of \in Markets => worker[w].result \in Directions
  /\ worker[w].at # "send" => worker[w].tries = 0
  /\ At(w, "insert") => worker[w].status # "none"

Different(c) == delivery_direction_consistency(c, signal[c]) = "different"

\* A batch of deliveries belongs to the stored signal, and keeps its order.
InOrder(w) ==
  worker[w].at \in Delivering =>
    /\ worker[w].kinds # << >>
    /\ signal[worker[w].of] # "none"
    /\ worker[w].kinds # <<"signal">> => Different(worker[w].of)
    /\ worker[w].kinds = <<"mismatch">> => row[<<worker[w].of, "signal">>].status # "none"
    /\ At(w, "event") => row[Key(w)].status # "none"

\* Whoever calls has claimed the row, and has made as many calls as it counts.
Claims(w) ==
  /\ worker[w].at \in Calling => row[Key(w)].status = "sent"
  /\ worker[w].at \in {"send", "confirm"} => ~row[Key(w)].sent_at
  /\ At(w, "send") => worker[w].tries < Attempts /\ received[Key(w)] <= worker[w].tries
  /\ At(w, "confirm") => received[Key(w)] > 0

Alone == \A v, w \in Workers :
  v # w /\ worker[v].at \in Calling /\ worker[w].at \in Calling => Key(v) # Key(w)

Untouched == \A k \in Keys : row[k].status = "none" => received[k] = 0 /\ ~row[k].sent_at

Recorded == \A k \in Keys : row[k].status # "none" => signal[k[1]] # "none"

Inv ==
  /\ RowsTyped
  /\ \A w \in Workers : InHand(w) /\ InOrder(w) /\ Claims(w)
  /\ Alone /\ Untouched /\ Recorded /\ MismatchFollowsSignal

-----------------------------------------------------------------------------
(* Lemmas *)

LEMMA Heads ==
  /\ Head(<<"signal">>) = "signal" /\ Head(<<"mismatch">>) = "mismatch"
  /\ Head(<<"signal", "mismatch">>) = "signal"
  /\ Tail(<<"signal", "mismatch">>) = <<"mismatch">>
  /\ Len(<<"signal">>) = 1 /\ Len(<<"mismatch">>) = 1 /\ Len(<<"signal", "mismatch">>) = 2
  /\ <<"signal">> # <<"mismatch">> /\ <<"signal">> # <<"signal", "mismatch">>
  /\ <<"mismatch">> # <<"signal", "mismatch">>
  /\ << >> # <<"signal">> /\ << >> # <<"mismatch">> /\ << >> # <<"signal", "mismatch">>
OBVIOUS

LEMMA KeyTyped ==
  ASSUME RowsTyped, NEW w \in Workers, InHand(w), InOrder(w), worker[w].at \in Delivering
  PROVE  /\ Key(w) \in Keys /\ worker[w].of \in Candles
         /\ Key(w) = <<worker[w].of, Head(worker[w].kinds)>>
         /\ Head(worker[w].kinds) \in {"signal", "mismatch"}
<1>1. worker[w] \in Records
  BY DEF RowsTyped
<1>2. worker[w].kinds \in {<<"signal">>, <<"mismatch">>, <<"signal", "mismatch">>}
  BY <1>1 DEF Records, Batches, InOrder
<1>3. Head(worker[w].kinds) \in {"signal", "mismatch"}
  BY <1>2, Heads
<1>4. worker[w].of \in Candles
  BY DEF InHand, Delivering, Calling
<1> QED  BY <1>3, <1>4 DEF Key, Keys

LEMMA IdleTyped == Idle \in Records /\ Idle.at = "idle" /\ Idle.tries = 0
BY DEF Idle, Records, Ats, Batches, Statuses

\* A worker that keeps off the rows leaves the deliveries of all as they were.
LEMMA Elsewhere ==
  ASSUME Inv, NEW w \in Workers, NEW r \in Records,
         worker' = [worker EXCEPT ![w] = r], r.at \notin Delivering,
         InHand(w)', cache' \in [Markets -> {"none"} \cup Directions],
         UNCHANGED <<verdict, signal, row, received>>
  PROVE  Inv'
<1>1. RowsTyped'
  BY DEF Inv, RowsTyped
<1>2. ASSUME NEW v \in Workers PROVE InHand(v)' /\ InOrder(v)' /\ Claims(v)'
  <2>1. CASE v = w
    BY SMTT(40), <2>1 DEF Inv, RowsTyped, InOrder, Claims, At, Delivering, Calling
  <2>2. CASE v # w
    <3>1. worker'[v] = worker[v]
      BY <2>2 DEF Inv, RowsTyped
    <3> QED  BY <3>1 DEF Inv, InHand, InOrder, Claims, At, Key, Different,
                         delivery_direction_consistency
  <2> QED  BY <2>1, <2>2
<1>3. Alone'
  BY DEF Inv, RowsTyped, Alone, Key, Delivering
<1>4. Untouched' /\ Recorded' /\ MismatchFollowsSignal'
  BY DEF Inv, Untouched, Recorded, MismatchFollowsSignal, delivery_direction_consistency
<1> QED  BY <1>1, <1>2, <1>3, <1>4 DEF Inv

-----------------------------------------------------------------------------
(* One lemma for the steps of each phase *)

LEMMA Goes_typed ==
  ASSUME RowsTyped, NEW w \in Workers, NEW at \in Ats, Goes(w, at)
  PROVE  /\ [worker[w] EXCEPT !.at = at] \in Records
         /\ worker' = [worker EXCEPT ![w] = [worker[w] EXCEPT !.at = at]]
         /\ worker'[w] = [worker[w] EXCEPT !.at = at]
<1>1. worker[w] \in Records
  BY DEF RowsTyped
<1> QED  BY <1>1 DEF Goes, RowsTyped, Records

LEMMA Ends_keeps ==
  ASSUME Inv, NEW w \in Workers, Ends(w), cache' \in [Markets -> {"none"} \cup Directions],
         UNCHANGED <<verdict, signal, row, received>>
  PROVE  Inv'
<1>1. InHand(w)' /\ Idle.at \notin Delivering
  BY IdleTyped DEF Ends, Inv, RowsTyped, InHand, Closing, At, Delivering, Calling
<1> QED  BY <1>1, IdleTyped, Elsewhere DEF Ends

\* The call that delivered returns from any of its places.
LEMMA Returns_keeps ==
  ASSUME Inv, NEW w \in Workers, Returns(w), worker[w].at \in Delivering \cup {"analyse"},
         UNCHANGED <<verdict, signal, row, received, cache>>
  PROVE  Inv'
<1> DEFINE r == [Idle EXCEPT !.at = "broadcast", !.of = worker[w].of]
<1>1. worker[w].of \in Candles /\ worker[w] \in Records
  BY DEF Inv, RowsTyped, InHand, Delivering, Calling
<1>2. r \in Records /\ r.at = "broadcast" /\ r.of = worker[w].of /\ r.tries = 0
  BY <1>1 DEF Idle, Records, Ats, Batches, Statuses
<1>3. worker' = [worker EXCEPT ![w] = r] /\ worker'[w] = r
  BY DEF Returns, Inv, RowsTyped
<1>4. InHand(w)'
  BY <1>1, <1>2, <1>3 DEF InHand, At, Closing
<1> HIDE DEF r
<1>5. r.at \notin Delivering
  BY <1>2 DEF Delivering, Calling
<1>6. cache' \in [Markets -> {"none"} \cup Directions]
  BY DEF Inv, RowsTyped
<1> QED  BY <1>2, <1>3, <1>4, <1>5, <1>6, Elsewhere

LEMMA HasResult_keeps ==
  ASSUME Inv, NEW w \in Workers, NEW d \in Directions, HasResult(w, d),
         worker[w].at \in {"result", "fetch"},
         cache' \in [Markets -> {"none"} \cup Directions], UNCHANGED <<verdict, signal, row, received>>
  PROVE  Inv'
<1> DEFINE r == [worker[w] EXCEPT !.at = "persist", !.result = d]
<1>1. worker[w] \in Records /\ InHand(w)
  BY DEF Inv, RowsTyped
<1>2. r \in Records /\ r.at = "persist" /\ r.result = d /\ r.of = worker[w].of /\ r.tries = worker[w].tries
  BY <1>1 DEF Records, Ats, Closing
<1>3. worker' = [worker EXCEPT ![w] = r] /\ worker'[w] = r
  BY <1>1 DEF HasResult, Inv, RowsTyped
<1> HIDE DEF r
<1>4. InHand(w)' /\ r.at \notin Delivering
  BY <1>1, <1>2, <1>3 DEF InHand, At, Closing, Delivering, Calling, Candles
<1> QED  BY <1>2, <1>3, <1>4, Elsewhere

LEMMA Asks_keeps ==
  ASSUME Inv, NEW w \in Workers, NEW m \in Markets, Asks(w, m)
  PROVE  Inv'
<1> DEFINE r == [Idle EXCEPT !.at = "result", !.of = m]
<1>1. r \in Records /\ r.at = "result" /\ r.of = m /\ r.tries = 0
  BY DEF Idle, Records, Ats, Closing, Batches, Statuses, Candles
<1>2. worker' = [worker EXCEPT ![w] = r] /\ worker'[w] = r
  BY DEF Asks, Inv, RowsTyped
<1> HIDE DEF r
<1>3. InHand(w)' /\ r.at \notin Delivering
  BY <1>1, <1>2 DEF InHand, At, Closing, Delivering, Calling, Candles
<1>4. cache' \in [Markets -> {"none"} \cup Directions] /\ UNCHANGED <<verdict, signal, row, received>>
  BY DEF Asks, rows, memory, Inv, RowsTyped
<1> QED  BY <1>1, <1>2, <1>3, <1>4, Elsewhere

LEMMA BinanceCloses_keeps ==
  ASSUME Inv, NEW w \in Workers, NEW h \in Hourly, BinanceCloses(w, h)
  PROVE  Inv'
<1> DEFINE r == [Idle EXCEPT !.at = "analyse", !.of = h]
<1>1. r \in Records /\ r.at = "analyse" /\ r.of = h /\ r.tries = 0 /\ h \notin Markets
  BY NotificationsAssumption DEF Idle, Records, Ats, Batches, Statuses, Candles
<1>2. worker' = [worker EXCEPT ![w] = r] /\ worker'[w] = r
  BY DEF BinanceCloses, Inv, RowsTyped
<1> HIDE DEF r
<1>3. InHand(w)' /\ r.at \notin Delivering
  BY <1>1, <1>2 DEF InHand, At, Closing, Delivering, Calling, Candles
<1>4. cache' \in [Markets -> {"none"} \cup Directions] /\ UNCHANGED <<verdict, signal, row, received>>
  BY DEF BinanceCloses, memory, Inv, RowsTyped
<1> QED  BY <1>1, <1>2, <1>3, <1>4, Elsewhere

\* A closed market on its way to the analysis.
LEMMA Goes_keeps ==
  ASSUME Inv, NEW w \in Workers, NEW at \in {"fetch", "check", "read", "analyse"}, Goes(w, at),
         worker[w].at \in Closing, at # "fetch" => worker[w].at \in {"persist", "check", "read"},
         UNCHANGED <<verdict, signal, row, received, cache>>
  PROVE  Inv'
<1> DEFINE r == [worker[w] EXCEPT !.at = at]
<1>1. at \in Ats /\ at \notin Delivering
  BY DEF Ats, Closing, Delivering, Calling
<1>2. worker[w] \in Records /\ InHand(w)
  BY DEF Inv, RowsTyped
<1>3. r \in Records /\ worker' = [worker EXCEPT ![w] = r] /\ worker'[w] = r
  BY <1>1, Goes_typed DEF Inv
<1>4. r.at = at /\ r.of = worker[w].of /\ r.tries = worker[w].tries /\ r.result = worker[w].result
  BY <1>2 DEF Records
<1> HIDE DEF r
<1>5. InHand(w)'
  BY <1>2, <1>3, <1>4 DEF InHand, At, Closing, Candles
<1>6. cache' \in [Markets -> {"none"} \cup Directions]
  BY DEF Inv, RowsTyped
<1> QED  BY <1>1, <1>3, <1>4, <1>5, <1>6, Elsewhere

LEMMA Finalises_keeps ==
  ASSUME Inv, NEW w \in Workers, Finalises(w)
  PROVE  Inv'
<1>1. cache \in [Markets -> {"none"} \cup Directions] /\ InHand(w) /\ worker[w] \in Records
  BY DEF Inv, RowsTyped
<1>2. ASSUME NEW d \in Directions, polymarket_boundary_result(w, d) PROVE Inv'
  BY <1>1, <1>2, HasResult_keeps DEF polymarket_boundary_result, At, rows, memory
<1>3. ASSUME NEW d \in Directions, PastResultAnswered(w, d) PROVE Inv'
  <2>1. cache' \in [Markets -> {"none"} \cup Directions]
    BY <1>1, <1>3 DEF PastResultAnswered
  <2> QED  BY <1>3, <2>1, HasResult_keeps DEF PastResultAnswered, At, rows
<1>4. CASE PastResultCached(w)
  <2>1. cache[worker[w].of] \in Directions
    BY <1>1, <1>4 DEF PastResultCached, InHand, At, Closing
  <2> QED  BY <1>1, <1>4, <2>1, HasResult_keeps DEF PastResultCached, At, rows, memory
<1>5. CASE PastResultAsked(w)
  BY <1>5, Goes_keeps DEF PastResultAsked, At, rows, Closing
<1>6. CASE PersistsResult(w)
  BY <1>6, Goes_keeps DEF PersistsResult, At, Closing
<1>7. CASE ChecksNotified(w)
  BY <1>1, <1>7, Goes_keeps, Ends_keeps DEF ChecksNotified, At, Closing, rows, memory
<1>8. CASE ReadsCandle(w)
  BY <1>1, <1>8, Goes_keeps, Ends_keeps DEF ReadsCandle, At, Closing, rows, memory
<1>9. CASE MarksNotified(w)
  BY <1>1, <1>9, Ends_keeps DEF MarksNotified, rows
<1> QED  BY <1>2, <1>3, <1>4, <1>5, <1>6, <1>7, <1>8, <1>9 DEF Finalises

-----------------------------------------------------------------------------
(* Deliveries *)

\* A step of one delivery changes its own row and its own messages, if any.
LEMMA OnKey ==
  ASSUME Inv, NEW w \in Workers, worker[w].at \in Delivering,
         NEW r \in Records, r.of = worker[w].of, r.kinds = worker[w].kinds, r.at \in Delivering,
         NEW x \in [status : Statuses, sent_at : BOOLEAN], NEW n \in Nat,
         worker' = [worker EXCEPT ![w] = r], row' = [row EXCEPT ![Key(w)] = x],
         received' = [received EXCEPT ![Key(w)] = n], UNCHANGED <<verdict, signal, cache>>,
         \/ x = row[Key(w)] /\ n = received[Key(w)]
         \/ x.status # "none" /\ (worker[w].at \in Calling \/ row[Key(w)].status = "none"),
         r.at \in Calling => worker[w].at \in Calling \/ row[Key(w)].status = "none",
         r.at = "event" => x.status # "none",
         InHand(w)', Claims(w)'
  PROVE  Inv'
<1> DEFINE k == Key(w)
<1>1. /\ InHand(w) /\ InOrder(w) /\ RowsTyped /\ k \in Keys /\ worker[w].of \in Candles
      /\ k = <<worker[w].of, Head(worker[w].kinds)>>
      /\ Head(worker[w].kinds) \in {"signal", "mismatch"}
  BY KeyTyped DEF Inv
<1>2. RowsTyped'
  BY <1>1 DEF RowsTyped
<1>3. Key(w)' = k /\ row'[k] = x /\ received'[k] = n /\ worker'[w] = r
  BY <1>1 DEF Key, RowsTyped
<1>4. \A j \in Keys : j # k => row'[j] = row[j] /\ received'[j] = received[j]
  BY <1>1 DEF RowsTyped
<1>5. \A j \in Keys : row[j].status # "none" => row'[j].status # "none"
  BY SMTT(40), <1>1, <1>3, <1>4
<1>6. InOrder(w)'
  <2>1. worker[w].kinds = <<"mismatch">> => row'[<<worker[w].of, "signal">>].status # "none"
    BY <1>1, <1>5 DEF InOrder, Keys
  <2> QED  BY <1>1, <1>3, <2>1 DEF InOrder, At, Different, delivery_direction_consistency
<1>7. ASSUME NEW v \in Workers, v # w PROVE InHand(v)' /\ InOrder(v)' /\ Claims(v)'
  <2>1. worker'[v] = worker[v] /\ Key(v)' = Key(v)
    BY <1>1, <1>7 DEF RowsTyped, Key
  <2>2. InHand(v) /\ InOrder(v) /\ Claims(v)
    BY DEF Inv
  <2>3. InHand(v)'
    BY <2>1, <2>2 DEF InHand, At
  <2>4. worker[v].at \in Delivering => Key(v) \in Keys /\ worker[v].of \in Candles
    BY <1>1, <2>2, KeyTyped
  <2>5. InOrder(v)'
    <3>1. worker[v].at \in Delivering /\ worker[v].kinds = <<"mismatch">>
            => row'[<<worker[v].of, "signal">>].status # "none"
      BY <1>5, <2>2, <2>4 DEF InOrder, Keys
    <3>2. At(v, "event") => row'[Key(v)].status # "none"
      BY <1>5, <2>2, <2>4 DEF InOrder, At, Delivering
    <3> QED  BY <2>1, <2>2, <3>1, <3>2 DEF InOrder, At, Different, delivery_direction_consistency
  <2>6. worker[v].at \in Calling =>
          row'[Key(v)] = row[Key(v)] /\ received'[Key(v)] = received[Key(v)]
    <3>1. CASE Key(v) # k
      BY <1>4, <2>4, <3>1 DEF Delivering
    <3>2. CASE Key(v) = k /\ worker[v].at \in Calling
      <4>1. row[k].status = "sent"
        BY <2>2, <3>2 DEF Claims
      <4>2. worker[w].at \notin Calling
        BY <1>7, <3>2 DEF Inv, Alone
      <4> QED  BY <1>3, <3>2, <4>1, <4>2
    <3> QED  BY <3>1, <3>2
  <2>7. Claims(v)'
    BY <2>1, <2>2, <2>6 DEF Claims, At, Calling
  <2> QED  BY <2>3, <2>5, <2>7
<1>8. Alone'
  <2>1. ASSUME NEW v \in Workers, v # w, worker[v].at \in Calling, r.at \in Calling PROVE Key(v) # k
    BY <2>1 DEF Inv, Alone, Claims
  <2>2. \A v \in Workers : v # w => worker'[v] = worker[v] /\ Key(v)' = Key(v)
    BY <1>1 DEF RowsTyped, Key
  <2> QED  BY <1>3, <2>1, <2>2 DEF Inv, Alone
<1>9. Untouched'
  BY <1>1, <1>3, <1>4 DEF Inv, Untouched
<1>10. Recorded'
  <2>1. signal[k[1]] # "none"
    BY <1>1 DEF InOrder
  <2> QED  BY <1>4, <2>1 DEF Inv, Recorded
<1>11. MismatchFollowsSignal'
  <2> SUFFICES ASSUME NEW m \in Candles, row'[<<m, "mismatch">>].status # "none"
               PROVE  row'[<<m, "signal">>].status # "none" /\ Different(m)
    BY DEF MismatchFollowsSignal, Different, delivery_direction_consistency
  <2>1. <<m, "mismatch">> \in Keys /\ <<m, "signal">> \in Keys
    BY DEF Keys
  <2>2. CASE row[<<m, "mismatch">>].status # "none"
    BY <1>5, <2>1, <2>2 DEF Inv, MismatchFollowsSignal, Different
  <2>3. CASE row[<<m, "mismatch">>].status = "none"
    <3>1. k = <<m, "mismatch">>
      BY <1>4, <2>1, <2>3
    <3>2. worker[w].of = m /\ Head(worker[w].kinds) = "mismatch"
      BY <1>1, <3>1
    <3>3. worker[w].kinds = <<"mismatch">>
      BY <1>1, <3>2, Heads DEF InOrder, RowsTyped, Records, Batches
    <3> QED  BY <1>1, <1>5, <2>1, <3>2, <3>3, Heads DEF InOrder
  <2> QED  BY <2>2, <2>3
<1> QED  BY <1>2, <1>6, <1>7, <1>8, <1>9, <1>10, <1>11 DEF Inv

\* A delivery moves on and leaves rows and messages alone.
LEMMA Onward ==
  ASSUME Inv, NEW w \in Workers, worker[w].at \in Delivering,
         NEW r \in Records, r.of = worker[w].of, r.kinds = worker[w].kinds, r.at \in Delivering,
         worker' = [worker EXCEPT ![w] = r], UNCHANGED <<verdict, signal, row, received, cache>>,
         r.at \in Calling => worker[w].at \in Calling,
         r.at = "event" => row[Key(w)].status # "none",
         InHand(w)', Claims(w)'
  PROVE  Inv'
<1>1. Key(w) \in Keys /\ RowsTyped
  BY KeyTyped DEF Inv
<1>2. row[Key(w)] \in [status : Statuses, sent_at : BOOLEAN] /\ received[Key(w)] \in Nat
  BY <1>1 DEF RowsTyped
<1>3. row' = [row EXCEPT ![Key(w)] = row[Key(w)]]
  BY <1>1 DEF RowsTyped
<1>4. received' = [received EXCEPT ![Key(w)] = received[Key(w)]]
  BY <1>1 DEF RowsTyped
<1> QED  BY ZenonT(60), <1>2, <1>3, <1>4, OnKey

LEMMA Holds ==
  ASSUME Inv, NEW w \in Workers
  PROVE  /\ InHand(w) /\ InOrder(w) /\ Claims(w) /\ worker[w] \in Records
         /\ \A r : worker' = [worker EXCEPT ![w] = r] => worker'[w] = r
         /\ worker[w].at \in Delivering =>
              /\ Key(w) \in Keys /\ row[Key(w)].status \in Statuses
              /\ row[Key(w)].sent_at \in BOOLEAN /\ received[Key(w)] \in Nat
<1>1. InHand(w) /\ InOrder(w) /\ Claims(w) /\ RowsTyped
  BY DEF Inv
<1> QED  BY <1>1, KeyTyped DEF RowsTyped

LEMMA Analyses_keeps ==
  ASSUME Inv, NEW w \in Workers, Analyses(w)
  PROVE  Inv'
<1> DEFINE c == worker[w].of
           kept == IF signal[c] = "none" THEN (IF c \in Hourly THEN "stored" ELSE worker[w].result)
                     ELSE signal[c]
           r == [worker[w] EXCEPT !.at = "switch", !.result = "none",
                                  !.kinds = process_signal_notifications(c, kept)]
<1>1. InHand(w) /\ worker[w] \in Records /\ RowsTyped /\ At(w, "analyse")
  BY DEF Inv, RowsTyped, Analyses
<1>2. CASE verdict[c] = "none"
  BY <1>1, <1>2, Returns_keeps DEF Analyses, memory, At
<1>3. CASE verdict[c] # "none"
  <2>1. /\ signal' = [signal EXCEPT ![c] = kept] /\ worker' = [worker EXCEPT ![w] = r]
        /\ UNCHANGED <<verdict, row, received, cache>>
    BY <1>3 DEF Analyses, memory
  <2>2. c \in Candles
    BY <1>1 DEF InHand, At
  <2>3. kept \in {"stored"} \cup Directions
    BY <1>1, <2>2 DEF InHand, RowsTyped, Candles, At
  <2>4. kept # "none"
    BY <2>3 DEF Directions
  <2>5. process_signal_notifications(c, kept) \in Batches \ {<< >>}
    BY Heads DEF process_signal_notifications, Batches
  <2>6. /\ r \in Records /\ r.at = "switch" /\ r.of = c /\ r.tries = 0
        /\ r.kinds = process_signal_notifications(c, kept)
    BY <1>1, <2>5 DEF Records, Ats, Delivering, InHand, At
  <2>7. worker'[w] = r /\ signal'[c] = kept
    BY <1>1, <2>1, <2>2 DEF RowsTyped
  <2>8. \A a \in Candles : signal[a] # "none" => signal'[a] = signal[a]
    BY <1>1, <2>1, <2>2 DEF RowsTyped
  <2>9. RowsTyped'
    BY <1>1, <2>1, <2>2, <2>3, <2>6 DEF RowsTyped
  <2> HIDE DEF r, kept
  <2>10. InHand(w)' /\ Claims(w)'
    BY <2>2, <2>6, <2>7 DEF InHand, Claims, At, Closing, Calling
  <2>11. InOrder(w)'
    <3>1. r.kinds # <<"signal">> => delivery_direction_consistency(c, kept) = "different"
      BY <2>6 DEF process_signal_notifications
    <3>2. r.kinds # <<"mismatch">> /\ r.kinds # << >>
      BY <2>6, Heads DEF process_signal_notifications
    <3> QED  BY <2>1, <2>4, <2>6, <2>7, <3>1, <3>2
             DEF InOrder, At, Different, delivery_direction_consistency
  <2>12. ASSUME NEW v \in Workers, v # w PROVE InHand(v)' /\ InOrder(v)' /\ Claims(v)'
    <3>1. worker'[v] = worker[v] /\ Key(v)' = Key(v)
      BY <1>1, <2>1, <2>12 DEF RowsTyped, Key
    <3>2. InHand(v) /\ InOrder(v) /\ Claims(v)
      BY DEF Inv
    <3>3. worker[v].at \in Delivering => worker[v].of \in Candles /\ signal'[worker[v].of] = signal[worker[v].of]
      BY <1>1, <2>8, <3>2, KeyTyped DEF InOrder
    <3> QED  BY <2>1, <3>1, <3>2, <3>3
             DEF InHand, InOrder, Claims, At, Different, delivery_direction_consistency
  <2>13. Alone'
    BY <1>1, <2>1, <2>6 DEF Inv, Alone, Key, RowsTyped, Calling
  <2>14. Untouched' /\ Recorded'
    BY <2>1, <2>8 DEF Inv, Untouched, Recorded, Keys
  <2>15. MismatchFollowsSignal'
    <3> SUFFICES ASSUME NEW m \in Candles, row[<<m, "mismatch">>].status # "none"
                 PROVE  row[<<m, "signal">>].status # "none" /\ Different(m)'
      BY <2>1 DEF MismatchFollowsSignal, Different
    <3>1. signal[m] # "none"
      BY DEF Inv, Recorded, Keys
    <3>2. signal'[m] = signal[m]
      BY <2>8, <3>1
    <3> QED  BY <2>1, <3>2 DEF Inv, MismatchFollowsSignal, Different, delivery_direction_consistency
  <2> QED  BY <2>9, <2>10, <2>11, <2>12, <2>13, <2>14, <2>15 DEF Inv
<1> QED  BY <1>2, <1>3

LEMMA ReadsSwitch_keeps ==
  ASSUME Inv, NEW w \in Workers, ReadsSwitch(w)
  PROVE  Inv'
<1> DEFINE s == IF ~enabled THEN "skipped_disabled" ELSE IF ~configured THEN "error" ELSE "sent"
           r == [worker[w] EXCEPT !.at = "insert", !.status = s]
<1>1. /\ worker' = [worker EXCEPT ![w] = r] /\ At(w, "switch")
      /\ UNCHANGED <<verdict, signal, row, received, cache>>
  BY DEF ReadsSwitch, rows, memory
<1>2. InHand(w) /\ worker[w] \in Records /\ worker'[w] = r
  BY <1>1, Holds
<1>3. /\ r \in Records /\ r.at = "insert" /\ r.status # "none" /\ r.of = worker[w].of
      /\ r.kinds = worker[w].kinds /\ r.tries = worker[w].tries
  BY ZenonT(60), <1>2 DEF Records, Ats, Delivering, Statuses
<1> HIDE DEF r
<1>4. InHand(w)' /\ Claims(w)'
  BY <1>1, <1>2, <1>3 DEF InHand, Claims, At, Closing, Calling
<1>5. worker[w].at \in Delivering /\ r.at \in Delivering /\ r.at \notin Calling
  BY <1>1, <1>3 DEF At, Delivering, Calling
<1> QED  BY <1>1, <1>3, <1>4, <1>5, Onward

LEMMA InsertsRow_keeps ==
  ASSUME Inv, NEW w \in Workers, InsertsRow(w)
  PROVE  Inv'
<1> DEFINE k == Key(w)
           created == row[k].status = "none"
           r == [worker[w] EXCEPT !.at = IF created /\ worker[w].status = "sent" THEN "send" ELSE "event",
                                  !.status = "none"]
           x == [row[k] EXCEPT !.status = worker[w].status]
<1>1. /\ worker' = [worker EXCEPT ![w] = r] /\ At(w, "insert")
      /\ UNCHANGED <<verdict, signal, received, cache>>
  BY DEF InsertsRow, memory
<1>2. worker[w].at \in Delivering
  BY <1>1 DEF At, Delivering
<1>3. /\ InHand(w) /\ worker[w] \in Records /\ worker'[w] = r /\ worker[w].status # "none"
      /\ worker[w].tries = 0
  BY <1>1, Holds DEF InHand, At
<1>4. k \in Keys /\ received[k] \in Nat /\ row[k] \in [status : Statuses, sent_at : BOOLEAN]
  BY <1>2, Holds DEF Inv, RowsTyped
<1>5. /\ r \in Records /\ r.of = worker[w].of /\ r.kinds = worker[w].kinds /\ r.tries = 0
      /\ r.at = IF created /\ worker[w].status = "sent" THEN "send" ELSE "event"
  BY ZenonT(60), <1>3 DEF Records, Ats, Delivering, Calling, Statuses
<1> HIDE DEF r
<1>6. Key(w)' = k
  <2>1. worker'[w].of = worker[w].of /\ worker'[w].kinds = worker[w].kinds
    BY <1>3, <1>5
  <2> QED  BY <2>1 DEF Key
<1>7. InHand(w)'
  BY <1>1, <1>3, <1>5 DEF InHand, At, Closing
<1>8. r.at \in Delivering
  BY <1>5 DEF Delivering, Calling
<1>9. CASE created
  <2>1. row' = [row EXCEPT ![k] = x] /\ row'[k] = x
    BY <1>4, <1>9 DEF InsertsRow, Inv, RowsTyped
  <2>2. x \in [status : Statuses, sent_at : BOOLEAN] /\ x.status = worker[w].status /\ ~x.sent_at /\ received[k] = 0
    BY <1>3, <1>4, <1>9 DEF Records, Inv, Untouched
  <2>3. received' = [received EXCEPT ![k] = received[k]]
    BY <1>1, <1>4 DEF Inv, RowsTyped
  <2>4. Claims(w)'
    BY <1>1, <1>3, <1>5, <1>6, <1>9, <2>1, <2>2, NotificationsAssumption DEF Claims, At, Calling
  <2> HIDE DEF x
  <2> QED  BY <1>1, <1>2, <1>3, <1>4, <1>5, <1>7, <1>8, <1>9, <2>1, <2>2, <2>3, <2>4, OnKey
<1>10. CASE ~created
  <2>1. row' = row /\ r.at = "event"
    BY <1>5, <1>10 DEF InsertsRow
  <2>2. Claims(w)' /\ r.at \notin Calling
    BY <1>3, <2>1 DEF Claims, At, Calling
  <2> QED  BY <1>1, <1>2, <1>5, <1>7, <1>8, <1>10, <2>1, <2>2, Onward
<1> QED  BY <1>9, <1>10

LEMMA Calls_keep ==
  ASSUME Inv, NEW w \in Workers, send_telegram_message(w)
  PROVE  Inv'
<1> DEFINE k == Key(w)
<1>1. At(w, "send") /\ UNCHANGED <<verdict, signal, row, cache>>
  BY DEF send_telegram_message, memory
<1>2. worker[w].at \in Delivering /\ worker[w].at \in Calling
  BY <1>1 DEF At, Delivering, Calling
<1>3. /\ InHand(w) /\ Claims(w) /\ worker[w] \in Records /\ k \in Keys /\ received[k] \in Nat
      /\ row[k] \in [status : Statuses, sent_at : BOOLEAN] /\ RowsTyped
  BY <1>2, Holds DEF Inv, RowsTyped
<1>4. /\ row[k].status = "sent" /\ ~row[k].sent_at /\ received[k] <= worker[w].tries
      /\ worker[w].tries < Attempts /\ Attempts \in Nat \ {0} /\ worker[w].tries \in Nat
  BY <1>1, <1>2, <1>3, NotificationsAssumption DEF Claims, At, Records
<1>5. ASSUME NEW n \in Nat, received' = [received EXCEPT ![k] = n],
             NEW r \in Records, worker' = [worker EXCEPT ![w] = r],
             r.of = worker[w].of, r.kinds = worker[w].kinds,
             \/ r.at = "send" /\ r.tries < Attempts /\ n <= r.tries
             \/ r.at = "confirm" /\ r.tries = 0 /\ n > 0
             \/ r.at = "give_up" /\ r.tries = 0
      PROVE  Inv'
  <2>1. worker'[w] = r /\ received'[k] = n /\ row' = [row EXCEPT ![k] = row[k]] /\ row' = row
    BY <1>1, <1>3, <1>5 DEF RowsTyped
  <2>2. Key(w)' = k
    BY <1>5, <2>1 DEF Key
  <2>3. InHand(w)' /\ Claims(w)'
    BY <1>1, <1>2, <1>3, <1>4, <1>5, <2>1, <2>2 DEF InHand, Claims, At, Closing, Calling
  <2>4. r.at \in Calling /\ r.at \in Delivering /\ r.at # "event"
    BY <1>5 DEF Calling, Delivering
  <2> QED  BY <1>1, <1>2, <1>3, <1>4, <1>5, <2>1, <2>3, <2>4, OnKey
<1>6. ASSUME NEW n \in Nat, received' = [received EXCEPT ![k] = n], n <= worker[w].tries + 1, Retries(w)
      PROVE  Inv'
  <2>1. CASE worker[w].tries + 1 < Attempts
    <3> DEFINE r == [worker[w] EXCEPT !.tries = @ + 1]
    <3>1. worker' = [worker EXCEPT ![w] = r]
      BY <1>3, <1>6, <2>1 DEF Retries, RowsTyped
    <3>2. /\ r \in Records /\ r.of = worker[w].of /\ r.kinds = worker[w].kinds /\ r.at = "send"
          /\ r.tries = worker[w].tries + 1
      BY <1>1, <1>3 DEF Records, At
    <3> HIDE DEF r
    <3> QED  BY <1>5, <1>6, <2>1, <3>1, <3>2
  <2>2. CASE ~(worker[w].tries + 1 < Attempts)
    <3> DEFINE r == [worker[w] EXCEPT !.at = "give_up", !.tries = 0]
    <3>1. worker' = [worker EXCEPT ![w] = r]
      BY <1>3, <1>6, <2>2 DEF Retries, Decides, RowsTyped
    <3>2. /\ r \in Records /\ r.of = worker[w].of /\ r.kinds = worker[w].kinds /\ r.at = "give_up"
          /\ r.tries = 0
      BY <1>3 DEF Records, Ats, Delivering, Calling
    <3> HIDE DEF r
    <3> QED  BY <1>5, <1>6, <3>1, <3>2
  <2> QED  BY <2>1, <2>2
<1>7. ASSUME NEW n \in Nat, received' = [received EXCEPT ![k] = n],
             NEW at \in {"confirm", "give_up"}, at = "confirm" => n > 0, Decides(w, at)
      PROVE  Inv'
  <2> DEFINE r == [worker[w] EXCEPT !.at = at, !.tries = 0]
  <2>1. worker' = [worker EXCEPT ![w] = r]
    BY <1>3, <1>7 DEF Decides, RowsTyped
  <2>2. /\ r \in Records /\ r.of = worker[w].of /\ r.kinds = worker[w].kinds /\ r.at = at
        /\ r.tries = 0
    BY <1>3 DEF Records, Ats, Delivering, Calling
  <2> HIDE DEF r
  <2> QED  BY <1>5, <1>7, <2>1, <2>2
<1>8. received = [received EXCEPT ![k] = received[k]]
  BY <1>3 DEF RowsTyped
<1>9. CASE Arrives(w) /\ Decides(w, "confirm")
  <2>1. received' = [received EXCEPT ![k] = received[k] + 1] /\ received[k] + 1 \in Nat /\ received[k] + 1 > 0
    BY <1>3, <1>9 DEF Arrives, RowsTyped
  <2> QED  BY <1>7, <1>9, <2>1
<1>10. CASE Arrives(w) /\ Retries(w)
  <2>1. received' = [received EXCEPT ![k] = received[k] + 1] /\ received[k] + 1 \in Nat
        /\ received[k] + 1 <= worker[w].tries + 1
    BY <1>3, <1>4, <1>10 DEF Arrives, RowsTyped
  <2> QED  BY <1>6, <1>10, <2>1
<1>11. CASE Retries(w) /\ UNCHANGED received
  BY <1>3, <1>4, <1>6, <1>8, <1>11
<1>12. CASE Decides(w, "give_up") /\ UNCHANGED received
  BY <1>3, <1>7, <1>8, <1>12
<1> QED  BY <1>9, <1>10, <1>11, <1>12 DEF send_telegram_message

\* The status of a claimed row is updated, or the update fails.
LEMMA Ended_keeps ==
  ASSUME Inv, NEW w \in Workers, worker[w].at \in {"confirm", "give_up"},
         NEW to \in {"event", "give_up"}, Goes(w, to),
         NEW s \in {"sent", "error"}, s = "error" => to = "event",
         update_delivery_status(w, s) \/ (to = "give_up" /\ UNCHANGED row),
         UNCHANGED <<verdict, signal, received, cache>>
  PROVE  Inv'
<1> DEFINE k == Key(w)
           r == [worker[w] EXCEPT !.at = to]
           x == IF update_delivery_status(w, s) THEN [status |-> s, sent_at |-> s = "sent"] ELSE row[k]
<1>1. worker[w].at \in Delivering /\ worker[w].at \in Calling /\ to \in Delivering /\ to \in Ats
  BY DEF Delivering, Calling, Ats
<1>2. /\ InHand(w) /\ Claims(w) /\ worker[w] \in Records /\ k \in Keys /\ received[k] \in Nat
      /\ row[k] \in [status : Statuses, sent_at : BOOLEAN] /\ RowsTyped
  BY <1>1, Holds DEF Inv, RowsTyped
<1>3. r \in Records /\ worker' = [worker EXCEPT ![w] = r] /\ worker'[w] = r
  BY <1>1, <1>2, Goes_typed
<1>4. r.at = to /\ r.of = worker[w].of /\ r.kinds = worker[w].kinds /\ r.tries = 0
  BY <1>2 DEF Records, InHand
<1>5. Key(w)' = k
  <2>1. worker'[w].of = worker[w].of /\ worker'[w].kinds = worker[w].kinds
    BY <1>3, <1>4
  <2> QED  BY <2>1 DEF Key
<1>6. row' = [row EXCEPT ![k] = x] /\ row'[k] = x
  BY <1>2 DEF update_delivery_status, RowsTyped
<1>7. /\ x \in [status : Statuses, sent_at : BOOLEAN] /\ x.status # "none"
      /\ to = "give_up" => x.status = "sent"
  <2>1. row[k].status = "sent"
    BY <1>1, <1>2 DEF Claims
  <2>2. [status |-> s, sent_at |-> s = "sent"] \in [status : Statuses, sent_at : BOOLEAN]
    BY DEF Statuses
  <2> QED  BY <1>2, <2>1, <2>2
<1>8. received' = [received EXCEPT ![k] = received[k]]
  BY <1>2 DEF RowsTyped
<1> HIDE DEF r, x
<1>9. InHand(w)' /\ Claims(w)'
  BY <1>2, <1>3, <1>4, <1>5, <1>6, <1>7 DEF InHand, Claims, At, Closing, Calling
<1> QED  BY <1>1, <1>2, <1>3, <1>4, <1>6, <1>7, <1>8, <1>9, OnKey

LEMMA RecordsEvent_keeps ==
  ASSUME Inv, NEW w \in Workers, RecordsEvent(w)
  PROVE  Inv'
<1> DEFINE r == [worker[w] EXCEPT !.at = "switch", !.kinds = Tail(@)]
<1>1. At(w, "event") /\ UNCHANGED <<verdict, signal, row, received, cache>>
  BY DEF RecordsEvent, rows, memory
<1>2. worker[w].at \in Delivering
  BY <1>1 DEF At, Delivering
<1>3. /\ InHand(w) /\ InOrder(w) /\ worker[w] \in Records /\ worker[w].of \in Candles
      /\ RowsTyped
  BY <1>2, Holds, KeyTyped DEF Inv
<1>4. CASE ~(Len(worker[w].kinds) > 1)
  BY <1>1, <1>2, <1>4, Returns_keeps DEF RecordsEvent
<1>5. CASE Len(worker[w].kinds) > 1
  <2>1. worker[w].kinds = <<"signal", "mismatch">>
    BY <1>2, <1>3, <1>5, Heads DEF InOrder, Records, Batches
  <2>2. row[<<worker[w].of, "signal">>].status # "none" /\ Different(worker[w].of)
    BY <1>1, <1>2, <1>3, <2>1, Heads DEF InOrder, Key
  <2>3. worker' = [worker EXCEPT ![w] = r] /\ worker'[w] = r
    BY <1>3, <1>5 DEF RecordsEvent, RowsTyped
  <2>4. Tail(worker[w].kinds) = <<"mismatch">> /\ <<"mismatch">> \in Batches
    BY <2>1, Heads DEF Batches
  <2>5. /\ r \in Records /\ r.at = "switch" /\ r.of = worker[w].of /\ r.kinds = <<"mismatch">>
        /\ r.tries = worker[w].tries
    BY <1>3, <2>4 DEF Records, Ats, Delivering
  <2> HIDE DEF r
  <2>6. RowsTyped'
    BY <1>1, <1>3, <2>3, <2>5 DEF RowsTyped
  <2>7. InHand(w)' /\ Claims(w)'
    BY <1>1, <1>3, <2>3, <2>5 DEF InHand, Claims, At, Closing, Calling
  <2>8. InOrder(w)'
    BY <1>1, <1>2, <1>3, <2>2, <2>3, <2>5, Heads
    DEF InOrder, At, Different, delivery_direction_consistency
  <2>9. ASSUME NEW v \in Workers, v # w PROVE InHand(v)' /\ InOrder(v)' /\ Claims(v)'
    <3>1. worker'[v] = worker[v] /\ Key(v)' = Key(v)
      BY <1>3, <2>3, <2>9 DEF RowsTyped, Key
    <3> QED  BY <1>1, <3>1 DEF Inv, InHand, InOrder, Claims, At, Different,
                               delivery_direction_consistency
  <2>10. Alone'
    BY <1>3, <2>3, <2>5 DEF Inv, Alone, Key, RowsTyped, Calling
  <2>11. Untouched' /\ Recorded' /\ MismatchFollowsSignal'
    BY <1>1 DEF Inv, Untouched, Recorded, MismatchFollowsSignal, delivery_direction_consistency
  <2> QED  BY <2>6, <2>7, <2>8, <2>9, <2>10, <2>11 DEF Inv
<1> QED  BY <1>4, <1>5

-----------------------------------------------------------------------------
(* The theorems *)

LEMMA Init_Inv ==
  ASSUME Init
  PROVE  Inv
<1>1. worker = [w \in Workers |-> Idle] /\ RowsTyped
  BY IdleTyped DEF Init, RowsTyped, NoRow, Statuses, Keys, Directions
<1>2. ASSUME NEW w \in Workers PROVE InHand(w) /\ InOrder(w) /\ Claims(w) /\ worker[w].at = "idle"
  BY <1>1, IdleTyped DEF InHand, InOrder, Claims, At, Closing, Delivering, Calling
<1>3. Alone
  BY <1>2 DEF Alone, Calling
<1>4. Untouched /\ Recorded
  BY DEF Init, Untouched, Recorded, NoRow
<1>5. MismatchFollowsSignal
  BY DEF Init, MismatchFollowsSignal, NoRow, Keys
<1> QED  BY <1>1, <1>2, <1>3, <1>4, <1>5 DEF Inv

LEMMA Delivers_keeps ==
  ASSUME Inv, NEW w \in Workers, Delivers(w)
  PROVE  Inv'
<1>1. CASE Confirms(w)
  <2>1. /\ worker[w].at \in {"confirm", "give_up"} /\ Goes(w, "event") /\ update_delivery_status(w, "sent")
        /\ UNCHANGED <<verdict, signal, received, cache>>
    BY <1>1 DEF Confirms, At, memory
  <2> QED  BY <2>1, Ended_keeps
<1>2. CASE GivesUp(w)
  <2>1. /\ worker[w].at \in {"confirm", "give_up"} /\ Goes(w, "event") /\ update_delivery_status(w, "error")
        /\ UNCHANGED <<verdict, signal, received, cache>>
    BY <1>2 DEF GivesUp, At, memory
  <2> QED  BY <2>1, Ended_keeps
<1> QED  BY <1>1, <1>2, Analyses_keeps, ReadsSwitch_keeps, InsertsRow_keeps, Calls_keep,
            RecordsEvent_keeps DEF Delivers

LEMMA Breaks_keeps ==
  ASSUME Inv, NEW w \in Workers, Breaks(w)
  PROVE  Inv'
<1>1. cache \in [Markets -> {"none"} \cup Directions]
  BY DEF Inv, RowsTyped
<1>2. CASE PastResultFails(w)
  BY <1>1, <1>2, Ends_keeps DEF PastResultFails, rows
<1>3. CASE PersistFails(w)
  BY <1>1, <1>3, Ends_keeps DEF PersistFails, rows, memory
<1>4. CASE ConfirmFails(w)
  <2>1. /\ worker[w].at \in {"confirm", "give_up"} /\ Goes(w, "give_up")
        /\ update_delivery_status(w, "sent") \/ UNCHANGED row
        /\ UNCHANGED <<verdict, signal, received, cache>>
    BY <1>4 DEF ConfirmFails, At, memory
  <2> QED  BY <2>1, Ended_keeps
<1>5. CASE NotificationFails(w)
  BY <1>5, Returns_keeps DEF NotificationFails, rows, memory, Delivering, Calling
<1> QED  BY <1>2, <1>3, <1>4, <1>5 DEF Breaks

\* What a restart forgets is not what the rows promise.
LEMMA Restart_keeps ==
  ASSUME Inv, Restart
  PROVE  Inv'
<1>1. worker' = [w \in Workers |-> Idle] /\ UNCHANGED <<verdict, signal, row, received>>
  BY DEF Restart
<1>2. RowsTyped'
  BY <1>1, IdleTyped DEF Inv, RowsTyped, Restart
<1>3. ASSUME NEW w \in Workers PROVE InHand(w)' /\ InOrder(w)' /\ Claims(w)' /\ worker'[w].at = "idle"
  BY <1>1, IdleTyped DEF InHand, InOrder, Claims, At, Closing, Delivering, Calling
<1>4. Alone'
  BY <1>3 DEF Alone, Calling
<1>5. Untouched' /\ Recorded' /\ MismatchFollowsSignal'
  BY SMTT(40), <1>1 DEF Inv, Untouched, Recorded, MismatchFollowsSignal, delivery_direction_consistency
<1> QED  BY <1>2, <1>3, <1>4, <1>5 DEF Inv

\* Steps of nobody: a candle closes, the switch is changed, nothing happens.
LEMMA Aside ==
  ASSUME Inv, UNCHANGED <<verdict, signal, row, received, cache, worker>>
  PROVE  Inv'
BY DEF Inv, RowsTyped, InHand, InOrder, Claims, Alone, Untouched, Recorded, MismatchFollowsSignal,
       At, Key, Different, delivery_direction_consistency

LEMMA Next_Inv ==
  ASSUME Inv, [Next]_vars
  PROVE  Inv'
<1>1. ASSUME NEW w \in Workers,
             \/ \E m \in Markets : Asks(w, m)
             \/ \E h \in Hourly : BinanceCloses(w, h)
             \/ Finalises(w) \/ Delivers(w) \/ Breaks(w)
      PROVE  Inv'
  BY <1>1, Asks_keeps, BinanceCloses_keeps, Finalises_keeps, Delivers_keeps, Breaks_keeps
<1>2. CASE \E m \in Markets : ChainlinkCloses(m)
  BY <1>2, Aside DEF ChainlinkCloses, memory
<1>3. CASE set_telegram_enabled
  BY <1>3, Aside DEF set_telegram_enabled, memory
<1>4. CASE Restart
  BY <1>4, Restart_keeps
<1>5. CASE UNCHANGED vars
  BY <1>5, Aside DEF vars, rows, memory
<1> QED
  <2>1. Next \/ UNCHANGED vars
    OBVIOUS
  <2>2. CASE Next
    BY <2>2, <1>1, <1>2, <1>3, <1>4 DEF Next
  <2> QED  BY <2>1, <2>2, <1>5

LEMMA Spec_Inv == Spec => []Inv
BY Init_Inv, Next_Inv, PTL DEF Spec

\* The alarm about a wrong direction follows the signal it is about, and is sent only when the
\* stored signal disagrees with the stored result.
THEOREM MismatchFollowsSignal_holds == Spec => []MismatchFollowsSignal
<1>1. Inv => MismatchFollowsSignal
  BY DEF Inv
<1> QED  BY Spec_Inv, <1>1, PTL

-----------------------------------------------------------------------------
(* The refinement of AtMostOnceDelivery *)

\* What a row is to AtMostOnceDelivery.
Seen(x) == IF x.status = "sent" /\ ~x.sent_at THEN "claimed" ELSE x.status
Status  == [k \in Keys |-> IF row[k].status = "sent" /\ ~row[k].sent_at THEN "claimed"
                          ELSE row[k].status]

\* A changed row is one move of its key.
LEMMA RowMoves ==
  ASSUME Inv, NEW k \in Keys, NEW x, row' = [row EXCEPT ![k] = x], UNCHANGED received
  PROVE  /\ Status[k] = Seen(row[k])
         /\ Status' = [Status EXCEPT ![k] = Seen(x)]
BY DEF Status, Seen, Inv, RowsTyped

\* The moves of AtMostOnceDelivery, stated of the rows.
LEMMA IsMove ==
  ASSUME NEW k \in Keys, NEW from, NEW to,
         Status[k] = from, Status' = [Status EXCEPT ![k] = to], UNCHANGED received
  PROVE  /\ from = "none" /\ to = "claimed" => Delivery!Claim(k)
         /\ from = "none" /\ to \in {"error", "skipped_disabled"} => Delivery!Refuse(k)
         /\ from = "claimed" /\ to = "sent" /\ received[k] > 0 => Delivery!Confirm(k)
         /\ from = "claimed" /\ to = "error" => Delivery!GiveUp(k)
         /\ from = "sent" /\ to = "error" => Delivery!Revoke(k)
BY DEF Status, Delivery!Claim, Delivery!Refuse, Delivery!Confirm, Delivery!GiveUp, Delivery!Revoke,
       Delivery!Moves

LEMMA Stutters ==
  ASSUME UNCHANGED <<row, received>>
  PROVE  UNCHANGED Delivery!vars
BY DEF Delivery!vars

LEMMA Claims_refines ==
  ASSUME Inv, NEW w \in Workers, InsertsRow(w)
  PROVE  [Delivery!Next]_(Delivery!vars)
<1>1. At(w, "insert") /\ UNCHANGED received
  BY DEF InsertsRow
<1>2. worker[w].at \in Delivering
  BY <1>1 DEF At, Delivering
<1>3. PICK k \in Keys : k = Key(w)
  BY <1>2, Holds
<1> DEFINE x == [row[k] EXCEPT !.status = worker[w].status]
<1>4. /\ row[k] \in [status : Statuses, sent_at : BOOLEAN]
      /\ worker[w].status \in {"sent", "error", "skipped_disabled"}
  BY <1>1, <1>2, Holds DEF Inv, RowsTyped, InHand, At, Records, Statuses
<1>5. CASE row[k].status = "none"
  <2>1. row' = [row EXCEPT ![k] = x]
    BY <1>3, <1>4, <1>5 DEF InsertsRow, Inv, RowsTyped
  <2>2. ~row[k].sent_at
    BY <1>4, <1>5 DEF Inv, Untouched
  <2>3. x.status = worker[w].status /\ ~x.sent_at
    BY <1>4, <2>2
  <2>4. Seen(row[k]) = "none" /\ Seen(x) \in {"claimed", "error", "skipped_disabled"}
    BY <1>4, <1>5, <2>3 DEF Seen
  <2> HIDE DEF x
  <2>5. Status[k] = "none" /\ Status' = [Status EXCEPT ![k] = Seen(x)]
    BY <1>1, <1>4, <2>1, <2>4, RowMoves
  <2>6. Delivery!Claim(k) \/ Delivery!Refuse(k)
    BY <1>1, <1>4, <2>4, <2>5, IsMove
  <2> QED  BY <1>4, <2>6 DEF Delivery!Next
<1>6. CASE row[k].status # "none"
  BY <1>3, <1>1, <1>6, Stutters DEF InsertsRow
<1> QED  BY <1>5, <1>6

LEMMA Calls_refine ==
  ASSUME Inv, NEW w \in Workers, send_telegram_message(w)
  PROVE  [Delivery!Next]_(Delivery!vars)
<1>1. At(w, "send") /\ UNCHANGED row /\ (Arrives(w) \/ UNCHANGED received)
  BY DEF send_telegram_message
<1>2. worker[w].at \in Delivering /\ worker[w].at \in Calling
  BY <1>1 DEF At, Delivering, Calling
<1>3. /\ Key(w) \in Keys /\ row[Key(w)].status = "sent" /\ ~row[Key(w)].sent_at
      /\ received[Key(w)] < Attempts
  BY <1>1, <1>2, Holds, NotificationsAssumption DEF Claims, At, Records
<1>4. CASE Arrives(w)
  <2>1. Status[Key(w)] = "claimed" /\ Status' = Status
    BY <1>1, <1>3 DEF Status
  <2>2. received' = [received EXCEPT ![Key(w)] = @ + 1]
    BY <1>4 DEF Arrives
  <2>3. Delivery!Arrive(Key(w))
    BY <1>3, <2>1, <2>2 DEF Delivery!Arrive, Status
  <2> QED  BY <1>3, <2>3 DEF Delivery!Next
<1>5. CASE UNCHANGED received
  BY <1>1, <1>5, Stutters
<1> QED  BY <1>1, <1>4, <1>5

LEMMA Confirm_refines ==
  ASSUME Inv, NEW w \in Workers, At(w, "confirm"), UNCHANGED received,
         update_delivery_status(w, "sent") \/ UNCHANGED row
  PROVE  [Delivery!Next]_(Delivery!vars)
<1> DEFINE x == [status |-> "sent", sent_at |-> "sent" = "sent"]
<1>1. worker[w].at \in Delivering /\ worker[w].at \in Calling
  BY DEF At, Delivering, Calling
<1>2. PICK k \in Keys : k = Key(w)
  BY <1>1, Holds
<1>3. row[k].status = "sent" /\ ~row[k].sent_at /\ received[k] > 0
  BY <1>1, <1>2, Holds DEF Claims, At
<1>4. CASE update_delivery_status(w, "sent")
  <2>1. row' = [row EXCEPT ![k] = x]
    BY <1>2, <1>4 DEF update_delivery_status
  <2>2. Seen(row[k]) = "claimed" /\ Seen(x) = "sent"
    BY <1>3 DEF Seen
  <2> HIDE DEF x
  <2>3. Status[k] = "claimed" /\ Status' = [Status EXCEPT ![k] = "sent"]
    BY <2>1, <2>2, RowMoves
  <2>4. Delivery!Confirm(k)
    BY <1>3, <2>3, IsMove
  <2> QED  BY <2>4 DEF Delivery!Next
<1>5. CASE UNCHANGED row
  BY <1>5, Stutters
<1> QED  BY <1>4, <1>5

LEMMA GivesUp_refines ==
  ASSUME Inv, NEW w \in Workers, GivesUp(w)
  PROVE  [Delivery!Next]_(Delivery!vars)
<1> DEFINE x == [status |-> "error", sent_at |-> "error" = "sent"]
<1>1. At(w, "give_up") /\ UNCHANGED received /\ update_delivery_status(w, "error")
  BY DEF GivesUp
<1>2. worker[w].at \in Delivering /\ worker[w].at \in Calling
  BY <1>1 DEF At, Delivering, Calling
<1>3. PICK k \in Keys : k = Key(w)
  BY <1>2, Holds
<1>4. row[k].status = "sent" /\ row' = [row EXCEPT ![k] = x]
  BY <1>1, <1>2, <1>3, Holds DEF Claims, update_delivery_status
<1>5. Seen(row[k]) \in {"claimed", "sent"} /\ Seen(x) = "error"
  BY <1>4 DEF Seen
<1> HIDE DEF x
<1>6. Status[k] \in {"claimed", "sent"} /\ Status' = [Status EXCEPT ![k] = "error"]
  BY <1>1, <1>4, <1>5, RowMoves
<1>7. Delivery!GiveUp(k) \/ Delivery!Revoke(k)
  BY ZenonT(60), <1>1, <1>6, IsMove
<1> QED  BY <1>7 DEF Delivery!Next

LEMMA Next_refines ==
  ASSUME Inv, [Next]_vars
  PROVE  [Delivery!Next]_(Delivery!vars)
<1>1. ASSUME NEW w \in Workers, Delivers(w) PROVE [Delivery!Next]_(Delivery!vars)
  <2>1. CASE Confirms(w)
    BY <2>1, Confirm_refines DEF Confirms
  <2>2. CASE Analyses(w) \/ ReadsSwitch(w) \/ RecordsEvent(w)
    BY <2>2, Stutters DEF Analyses, ReadsSwitch, RecordsEvent, rows
  <2> QED  BY <1>1, <2>1, <2>2, Claims_refines, Calls_refine, GivesUp_refines DEF Delivers
<1>2. ASSUME NEW w \in Workers, Breaks(w) PROVE [Delivery!Next]_(Delivery!vars)
  <2>1. CASE ConfirmFails(w)
    BY <2>1, Confirm_refines DEF ConfirmFails
  <2>2. CASE PastResultFails(w) \/ PersistFails(w) \/ NotificationFails(w)
    BY <2>2, Stutters DEF PastResultFails, PersistFails, NotificationFails, rows
  <2> QED  BY <1>2, <2>1, <2>2 DEF Breaks
<1>3. ASSUME NEW w \in Workers, Finalises(w) PROVE UNCHANGED <<row, received>>
  BY <1>3 DEF Finalises, polymarket_boundary_result, PastResultAnswered, PastResultCached,
              PastResultAsked, PersistsResult, ChecksNotified, ReadsCandle, MarksNotified, rows
<1>4. ASSUME NEW w \in Workers, \/ \E m \in Markets : Asks(w, m)
                                \/ \E h \in Hourly : BinanceCloses(w, h)
      PROVE  UNCHANGED <<row, received>>
  BY <1>4 DEF Asks, BinanceCloses, rows
<1>5. CASE \/ \E m \in Markets : ChainlinkCloses(m)
           \/ set_telegram_enabled \/ Restart \/ UNCHANGED vars
  BY <1>5, Stutters DEF ChainlinkCloses, set_telegram_enabled, Restart, vars, rows
<1>6. CASE Next
  BY <1>6, <1>1, <1>2, <1>3, <1>4, <1>5, Stutters DEF Next
<1> QED  BY <1>5, <1>6

\* A key is delivered by one worker in one series of calls, never after it was skipped or ended:
\* the rows of notification_deliveries implement AtMostOnceDelivery.
THEOREM DeliveredOnce_holds == Spec => DeliveredOnce
<1>1. Init => Delivery!Init
  BY DEF Init, Delivery!Init, NoRow
<1>2. Inv /\ [Next]_vars => [Delivery!Next]_(Delivery!vars)
  BY Next_refines
<1> QED  BY Spec_Inv, <1>1, <1>2, PTL DEF Spec, DeliveredOnce, Delivery!Spec

-----------------------------------------------------------------------------
(* Analyses and snapshots *)

TaskStatuses == {"none", "running", "done", "error", "deleted"}
WorkSteps    == {"off", "delete", "download", "metadata", "fetch", "upsert", "clear", "finish"}
BuildSteps   == {"off", "read", "list", "store", "done", "failed"}
ReadSteps    == {"idle", "slugs", "metadata", "waiting"}

\* What an analysis may be at when n activities exist.
Works(n) == [pc : WorkSteps, asked : Nat, next : 0 .. n, saved : SUBSET (1 .. n),
             row : {"none", "open", "closed"}]

AnalysesTyped ==
  /\ activities \in 0 .. MaxTrades /\ stored \subseteq 1 .. activities /\ resolved \in BOOLEAN
  /\ metadata \in [written : Nat, result : {"none", "open", "closed"}]
  /\ task \in [AnalysisTasks -> TaskStatuses] /\ work \in [AnalysisTasks -> Works(activities)]
  /\ fetching \in BOOLEAN /\ (fetching <=> \E t \in AnalysisTasks : work[t].pc = "fetch")
  /\ last \in AnalysisTasks \cup {NoOne} /\ lost \subseteq AnalysisTasks
  /\ fails \in 0 .. ReportFailures /\ restarts \in 0 .. ReportRestarts

\* A build and a reader have the fields of a record: what a key is does not matter here.
IsBuild(x) == DOMAIN x = {"pc", "key", "rows", "written"} /\ x.pc \in BuildSteps
IsRead(x)  == /\ DOMAIN x = {"pc", "key", "any", "build"} /\ x.pc \in ReadSteps
              /\ x.pc = "waiting" <=> x.build # NoOne

BuildsTyped ==
  /\ inflight \in Builds \cup {NoOne}
  /\ build = [b \in Builds |-> build[b]] /\ \A b \in Builds : IsBuild(build[b])

ReadersTyped ==
  /\ reader = [r \in Readers |-> reader[r]] /\ \A r \in Readers : IsRead(reader[r])

\* Who is about to delete has stored nothing yet, and what was not asked for does nothing.
NotYetStored == \A t \in AnalysisTasks : /\ work[t].pc = "delete" => work[t].saved = {}
                                         /\ task[t] = "none" => work[t].pc = "off"

ReportsInv ==
  /\ AnalysesTyped /\ BuildsTyped /\ ReadersTyped
  /\ NotYetStored /\ Reports!RunningIsAtWork /\ Reports!LastRebuildIsWhole

LEMMA ReportConstants ==
  /\ ActivitiesListed \in Nat /\ ActivitiesStored \in Nat /\ MaxTrades \in Nat
  /\ ActivitiesAsked \subseteq Nat /\ ActivitiesStored <= ActivitiesListed
  /\ ActivitiesListed <= MaxTrades /\ ReportFailures \in Nat /\ ReportRestarts \in Nat
  /\ NoOne \notin AnalysisTasks /\ NoOne \notin Readers /\ NoOne \notin Builds
BY ModelConstants DEF Reports!ConstantsOK

\* One analysis moves, with its task and the rows.
\* One analysis comes to w, and its task to the status s.
TaskStep(t, w, s) ==
  /\ w \in Works(activities) /\ work' = [work EXCEPT ![t] = w] /\ (w.pc = "delete" => w.saved = {})
  /\ s \in TaskStatuses /\ task' = [task EXCEPT ![t] = s]
  /\ s = "running" => w.pc # "off" \/ t \in lost'
  /\ s = "none" => w.pc = "off"
  /\ lost \subseteq lost' /\ lost' \subseteq AnalysisTasks
  /\ stored' \subseteq 1 .. activities /\ last' \in AnalysisTasks \cup {NoOne}
  /\ last' = t => w.saved \subseteq stored'
  /\ last' # t => last' = last /\ stored \subseteq stored'
  /\ metadata' \in [written : Nat, result : {"none", "open", "closed"}]
  /\ fetching' \in BOOLEAN
  /\ fetching' <=> w.pc = "fetch" \/ \E u \in AnalysisTasks \ {t} : work[u].pc = "fetch"
  /\ inflight' \in Builds \cup {NoOne} /\ fails' \in 0 .. ReportFailures
  /\ Reports!analysis_only

LEMMA TaskMoves ==
  ASSUME ReportsInv, NEW t \in AnalysisTasks, NEW w, NEW s, TaskStep(t, w, s)
  PROVE  ReportsInv'
<1>0. /\ w \in Works(activities) /\ work' = [work EXCEPT ![t] = w] /\ (w.pc = "delete" => w.saved = {})
      /\ s \in TaskStatuses /\ task' = [task EXCEPT ![t] = s]
      /\ s = "running" => w.pc # "off" \/ t \in lost'
      /\ s = "none" => w.pc = "off"
      /\ lost \subseteq lost' /\ lost' \subseteq AnalysisTasks
      /\ stored' \subseteq 1 .. activities /\ last' \in AnalysisTasks \cup {NoOne}
      /\ last' = t => w.saved \subseteq stored'
      /\ last' # t => last' = last /\ stored \subseteq stored'
      /\ metadata' \in [written : Nat, result : {"none", "open", "closed"}]
      /\ fetching' \in BOOLEAN
      /\ fetching' <=> w.pc = "fetch" \/ \E u \in AnalysisTasks \ {t} : work[u].pc = "fetch"
      /\ inflight' \in Builds \cup {NoOne} /\ fails' \in 0 .. ReportFailures
      /\ activities' = activities /\ resolved' = resolved /\ build' = build /\ reader' = reader
      /\ restarts' = restarts
  BY DEF TaskStep, Reports!analysis_only
<1>1. /\ AnalysesTyped /\ BuildsTyped /\ ReadersTyped /\ NotYetStored
      /\ Reports!RunningIsAtWork /\ Reports!LastRebuildIsWhole
  BY DEF ReportsInv
<1>2. work \in [AnalysisTasks -> Works(activities)] /\ task \in [AnalysisTasks -> TaskStatuses]
  BY <1>0, <1>1 DEF AnalysesTyped
<1>3. /\ work' \in [AnalysisTasks -> Works(activities)] /\ work'[t] = w
      /\ \A u \in AnalysisTasks \ {t} : work'[u] = work[u]
  BY <1>0, <1>2
<1>4. /\ task' \in [AnalysisTasks -> TaskStatuses] /\ task'[t] = s
      /\ \A u \in AnalysisTasks \ {t} : task'[u] = task[u]
  BY <1>0, <1>2
<1>5. fetching' <=> \E u \in AnalysisTasks : work'[u].pc = "fetch"
  BY <1>0, <1>3
<1>6. AnalysesTyped'
  BY <1>0, <1>1, <1>3, <1>4, <1>5 DEF AnalysesTyped
<1>7. BuildsTyped' /\ ReadersTyped'
  BY <1>0, <1>1 DEF BuildsTyped, ReadersTyped, IsBuild, IsRead
<1>8. NotYetStored'
  BY <1>0, <1>1, <1>3, <1>4 DEF NotYetStored
<1>9. Reports!RunningIsAtWork'
  BY <1>0, <1>1, <1>3, <1>4 DEF Reports!RunningIsAtWork
<1>10. Reports!LastRebuildIsWhole'
  BY <1>0, <1>1, <1>3 DEF Reports!LastRebuildIsWhole
<1> QED  BY <1>6, <1>7, <1>8, <1>9, <1>10 DEF ReportsInv

\* Only the snapshots move.
LEMMA SnapshotsMove ==
  ASSUME ReportsInv, Reports!snapshot_only, fails' \in 0 .. ReportFailures,
         BuildsTyped', ReadersTyped'
  PROVE  ReportsInv'
<1>1. /\ AnalysesTyped /\ NotYetStored /\ Reports!RunningIsAtWork /\ Reports!LastRebuildIsWhole
      /\ activities' = activities /\ resolved' = resolved /\ stored' = stored /\ metadata' = metadata
      /\ task' = task /\ work' = work /\ fetching' = fetching /\ last' = last /\ lost' = lost
      /\ restarts' = restarts
  BY DEF ReportsInv, Reports!snapshot_only
<1>2. AnalysesTyped'
  BY <1>1 DEF AnalysesTyped
<1>3. NotYetStored' /\ Reports!RunningIsAtWork' /\ Reports!LastRebuildIsWhole'
  BY <1>1 DEF NotYetStored, Reports!RunningIsAtWork, Reports!LastRebuildIsWhole
<1> QED  BY <1>2, <1>3 DEF ReportsInv

LEMMA BuildMoves ==
  ASSUME BuildsTyped, NEW b \in Builds, NEW x, IsBuild(x), build' = [build EXCEPT ![b] = x],
         inflight' \in Builds \cup {NoOne}
  PROVE  BuildsTyped'
<1>1. build = [a \in Builds |-> build[a]] /\ \A a \in Builds : IsBuild(build[a])
  BY DEF BuildsTyped
<1>2. build' = [a \in Builds |-> build'[a]] /\ \A a \in Builds : build'[a] = IF a = b THEN x ELSE build[a]
  BY <1>1
<1>3. \A a \in Builds : IsBuild(build'[a])
  BY <1>1, <1>2
<1> QED  BY <1>2, <1>3 DEF BuildsTyped, IsBuild

LEMMA ReaderMoves ==
  ASSUME ReadersTyped, NEW r \in Readers, NEW x, IsRead(x), reader' = [reader EXCEPT ![r] = x]
  PROVE  ReadersTyped'
<1>1. reader = [a \in Readers |-> reader[a]] /\ \A a \in Readers : IsRead(reader[a])
  BY DEF ReadersTyped
<1>2. /\ reader' = [a \in Readers |-> reader'[a]]
      /\ \A a \in Readers : reader'[a] = IF a = r THEN x ELSE reader[a]
  BY <1>1
<1>3. \A a \in Readers : IsRead(reader'[a])
  BY <1>1, <1>2
<1> QED  BY <1>2, <1>3 DEF ReadersTyped, IsRead

LEMMA ReportsStart == ASSUME Reports!Init PROVE ReportsInv
<1>0. /\ activities = ActivitiesListed /\ resolved = FALSE /\ stored = 1 .. ActivitiesStored
      /\ metadata = IF ActivitiesStored = 0 THEN [written |-> 0, result |-> "none"]
                    ELSE [written |-> 1, result |-> "open"]
      /\ task = [t \in AnalysisTasks |-> "none"] /\ work = [t \in AnalysisTasks |-> Reports!NoWork]
      /\ fetching = FALSE /\ inflight = NoOne
      /\ build = [b \in Builds |-> Reports!NoBuild] /\ reader = [r \in Readers |-> Reports!NoRead]
      /\ last = NoOne /\ lost = {} /\ fails = 0 /\ restarts = 0
  BY DEF Reports!Init
<1>1. PICK w : w = Reports!NoWork
  OBVIOUS
<1>2. w \in Works(activities) /\ w.pc = "off" /\ w.saved = {}
  BY <1>0, <1>1, ReportConstants DEF Reports!NoWork, Works, WorkSteps
<1>3. AnalysesTyped
  <2>1. activities \in 0 .. MaxTrades /\ stored \subseteq 1 .. activities
    BY <1>0, ReportConstants
  <2>2. metadata \in [written : Nat, result : {"none", "open", "closed"}]
    BY <1>0
  <2>3. task \in [AnalysisTasks -> TaskStatuses] /\ work \in [AnalysisTasks -> Works(activities)]
    BY <1>0, <1>1, <1>2 DEF TaskStatuses
  <2>4. \A t \in AnalysisTasks : work[t].pc # "fetch"
    BY <1>0, <1>1, <1>2
  <2>5. fetching <=> \E t \in AnalysisTasks : work[t].pc = "fetch"
    BY <1>0, <2>4
  <2>6. fails \in 0 .. ReportFailures /\ restarts \in 0 .. ReportRestarts
    BY <1>0, ReportConstants
  <2>7. /\ resolved \in BOOLEAN /\ fetching \in BOOLEAN /\ lost \subseteq AnalysisTasks
        /\ last \in AnalysisTasks \cup {NoOne}
    BY <1>0
  <2> QED  BY <2>1, <2>2, <2>3, <2>5, <2>6, <2>7 DEF AnalysesTyped
<1>4. BuildsTyped
  <2>1. PICK x : x = Reports!NoBuild
    OBVIOUS
  <2>2. IsBuild(x)
    BY <2>1 DEF Reports!NoBuild, IsBuild, BuildSteps
  <2>3. \A b \in Builds : build[b] = x
    BY <1>0, <2>1
  <2>4. build = [b \in Builds |-> build[b]]
    BY <1>0
  <2> QED  BY <1>0, <2>2, <2>3, <2>4 DEF BuildsTyped
<1>5. ReadersTyped
  <2>1. PICK x : x = Reports!NoRead
    OBVIOUS
  <2>2. IsRead(x)
    BY <2>1 DEF Reports!NoRead, IsRead, ReadSteps
  <2>3. \A r \in Readers : reader[r] = x
    BY <1>0, <2>1
  <2>4. reader = [r \in Readers |-> reader[r]]
    BY <1>0
  <2> QED  BY <2>2, <2>3, <2>4 DEF ReadersTyped
<1>6. NotYetStored
  BY <1>0, <1>1, <1>2 DEF NotYetStored
<1>7. Reports!RunningIsAtWork
  BY <1>0 DEF Reports!RunningIsAtWork
<1>8. Reports!LastRebuildIsWhole
  BY <1>0, ReportConstants DEF Reports!LastRebuildIsWhole
<1> QED  BY <1>3, <1>4, <1>5, <1>6, <1>7, <1>8 DEF ReportsInv

\* What holds of one analysis.
LEMMA TaskHolds ==
  ASSUME ReportsInv, NEW t \in AnalysisTasks
  PROVE  /\ work[t] \in Works(activities) /\ task[t] \in TaskStatuses
         /\ work = [work EXCEPT ![t] = work[t]] /\ task = [task EXCEPT ![t] = task[t]]
         /\ work[t].pc = "delete" => work[t].saved = {}
         /\ task[t] = "running" => work[t].pc # "off" \/ t \in lost
         /\ task[t] = "none" => work[t].pc = "off"
         /\ last = t => work[t].saved \subseteq stored
         /\ fetching <=> work[t].pc = "fetch" \/ \E u \in AnalysisTasks \ {t} : work[u].pc = "fetch"
         /\ activities \in Nat /\ stored \subseteq 1 .. activities /\ lost \subseteq AnalysisTasks
         /\ last \in AnalysisTasks \cup {NoOne} /\ inflight \in Builds \cup {NoOne}
         /\ metadata \in [written : Nat, result : {"none", "open", "closed"}]
         /\ fetching \in BOOLEAN /\ fails \in 0 .. ReportFailures
         /\ NoOne \in Builds \cup {NoOne}
<1>1. /\ AnalysesTyped /\ BuildsTyped /\ NotYetStored
      /\ Reports!RunningIsAtWork /\ Reports!LastRebuildIsWhole
  BY DEF ReportsInv
<1>2. work \in [AnalysisTasks -> Works(activities)] /\ task \in [AnalysisTasks -> TaskStatuses]
  BY <1>1 DEF AnalysesTyped
<1>3. /\ work[t].pc = "delete" => work[t].saved = {}
      /\ task[t] = "running" => work[t].pc # "off" \/ t \in lost
      /\ task[t] = "none" => work[t].pc = "off"
      /\ last = t => work[t].saved \subseteq stored
  <2>1. /\ work[t].pc = "delete" => work[t].saved = {}
        /\ task[t] = "none" => work[t].pc = "off"
    BY <1>1 DEF NotYetStored
  <2>2. task[t] = "running" => work[t].pc # "off" \/ t \in lost
    BY <1>1 DEF Reports!RunningIsAtWork
  <2>3. last = t => work[t].saved \subseteq stored
    BY <1>1 DEF Reports!LastRebuildIsWhole
  <2> QED  BY <2>1, <2>2, <2>3
<1>4. activities \in Nat
  BY <1>1, ReportConstants DEF AnalysesTyped
<1>5. inflight \in Builds \cup {NoOne}
  BY <1>1 DEF BuildsTyped
<1>6. fetching <=> work[t].pc = "fetch" \/ \E u \in AnalysisTasks \ {t} : work[u].pc = "fetch"
  BY <1>1 DEF AnalysesTyped
<1> QED  BY <1>1, <1>2, <1>3, <1>4, <1>5, <1>6 DEF AnalysesTyped

LEMMA AnalysisKeeps ==
  ASSUME ReportsInv, NEW t \in AnalysisTasks,
         \/ \E n \in ActivitiesAsked : Reports!analyze_account(t, n)
         \/ Reports!Analysis(t) \/ Reports!AnalysisFails(t) \/ Reports!delete_finished_tasks_before(t)
  PROVE  ReportsInv'
<1>0. PICK v, s : v = work[t] /\ s = task[t]
  OBVIOUS
<1>1. /\ v \in Works(activities) /\ s \in TaskStatuses
      /\ work = [work EXCEPT ![t] = v] /\ task = [task EXCEPT ![t] = s]
      /\ v.pc = "delete" => v.saved = {}
      /\ s = "running" => v.pc # "off" \/ t \in lost
      /\ s = "none" => v.pc = "off"
      /\ last = t => v.saved \subseteq stored
      /\ fetching <=> v.pc = "fetch" \/ \E u \in AnalysisTasks \ {t} : work[u].pc = "fetch"
      /\ activities \in Nat /\ stored \subseteq 1 .. activities /\ lost \subseteq AnalysisTasks
      /\ last \in AnalysisTasks \cup {NoOne} /\ inflight \in Builds \cup {NoOne}
      /\ metadata \in [written : Nat, result : {"none", "open", "closed"}]
      /\ fetching \in BOOLEAN /\ fails \in 0 .. ReportFailures
      /\ NoOne \in Builds \cup {NoOne}
  BY <1>0, TaskHolds
<1>2. /\ v.pc \in WorkSteps /\ v.asked \in Nat /\ v.next \in 0 .. activities
      /\ v.saved \subseteq 1 .. activities /\ v.row \in {"none", "open", "closed"}
  BY <1>1 DEF Works
\* A step of the coroutine that leaves its task alone.
<1>3. ASSUME NEW w \in Works(activities), work' = [work EXCEPT ![t] = w], w.pc \notin {"off", "delete"},
             w.saved = v.saved, v.pc # "off", task' = task, lost' = lost, stored' = stored, last' = last,
             metadata' \in [written : Nat, result : {"none", "open", "closed"}],
             \/ fetching' = fetching /\ v.pc # "fetch" /\ w.pc # "fetch"
             \/ fetching' = TRUE /\ w.pc = "fetch",
             inflight' \in Builds \cup {NoOne}, fails' = fails, Reports!analysis_only
      PROVE  ReportsInv'
  <2>1. fetching' \in BOOLEAN
    BY <1>1, <1>3
  <2>2. fetching' <=> w.pc = "fetch" \/ \E u \in AnalysisTasks \ {t} : work[u].pc = "fetch"
    BY <1>1, <1>3
  <2>3. task' = [task EXCEPT ![t] = s] /\ s # "none"
    BY <1>1, <1>3
  <2>4. /\ stored' \subseteq 1 .. activities /\ last' \in AnalysisTasks \cup {NoOne}
        /\ last' = t => w.saved \subseteq stored'
        /\ last' # t => last' = last /\ stored \subseteq stored'
        /\ lost \subseteq lost' /\ lost' \subseteq AnalysisTasks
        /\ fails' \in 0 .. ReportFailures
        /\ w.pc = "delete" => w.saved = {}
        /\ s = "running" => w.pc # "off" \/ t \in lost'
        /\ s = "none" => w.pc = "off"
    BY <1>1, <1>3, <2>3
  <2>5. TaskStep(t, w, s)
    BY <1>1, <1>3, <2>1, <2>2, <2>3, <2>4 DEF TaskStep
  <2> QED  BY <2>5, TaskMoves
<1>4. ASSUME NEW n \in ActivitiesAsked, Reports!analyze_account(t, n) PROVE ReportsInv'
  <2>1. PICK z, w : z = Reports!NoWork /\ w = [z EXCEPT !.pc = "delete", !.asked = n]
    OBVIOUS
  <2>2. z = [pc |-> "off", asked |-> 0, next |-> 0, saved |-> {}, row |-> "none"]
    BY <2>1 DEF Reports!NoWork
  <2>3. n \in Nat /\ 0 \in 0 .. activities
    BY <1>1, ReportConstants
  <2>4. z \in Works(activities)
    BY <2>2, <2>3 DEF Works, WorkSteps
  <2>5. w \in Works(activities) /\ w.pc = "delete" /\ w.saved = {}
    <3>1. w \in Works(activities)
      BY <2>1, <2>3, <2>4 DEF Works, WorkSteps
    <3>2. w.pc = "delete" /\ w.saved = z.saved
      BY <2>1, <2>4 DEF Works
    <3> QED  BY <2>2, <3>1, <3>2
  <2>6. /\ work' = [work EXCEPT ![t] = w] /\ task' = [task EXCEPT ![t] = "running"] /\ s = "none"
        /\ stored' = stored /\ metadata' = metadata /\ fetching' = fetching /\ inflight' = inflight
        /\ last' = last /\ lost' = lost /\ fails' = fails /\ Reports!analysis_only
    BY <1>0, <1>4, <2>1 DEF Reports!analyze_account
  <2>7. PICK x \in TaskStatuses : x = "running"
    BY DEF TaskStatuses
  <2>8. v.pc = "off"
    BY <1>1, <2>6
  <2>9. TaskStep(t, w, x)
    BY <1>1, <2>5, <2>6, <2>7, <2>8 DEF TaskStep
  <2> QED  BY <2>9, TaskMoves
<1>5. CASE Reports!delete_account_activities(t)
  <2>1. PICK w : w = [v EXCEPT !.pc = "download", !.next = activities]
    OBVIOUS
  <2>2. /\ v.pc = "delete" /\ stored' = {} /\ last' = t /\ work' = [work EXCEPT ![t] = w]
        /\ task' = task /\ metadata' = metadata /\ fetching' = fetching /\ inflight' = inflight
        /\ lost' = lost /\ fails' = fails /\ Reports!analysis_only
    BY <1>0, <1>5, <2>1 DEF Reports!delete_account_activities
  <2>3. w \in Works(activities) /\ w.pc = "download" /\ w.saved = v.saved
    <3>1. activities \in 0 .. activities
      BY <1>1
    <3> QED  BY <1>1, <2>1, <3>1 DEF Works, WorkSteps
  <2>4. TaskStep(t, w, s)
    BY <1>1, <2>2, <2>3 DEF TaskStep
  <2> QED  BY <2>4, TaskMoves
<1>6. CASE Reports!upsert_activities(t)
  <2>1. /\ v.pc = "download" /\ task' = task /\ metadata' = metadata /\ fetching' = fetching
        /\ inflight' = inflight /\ last' = last /\ lost' = lost /\ fails' = fails /\ Reports!analysis_only
    BY <1>0, <1>6 DEF Reports!upsert_activities
  <2>2. CASE Reports!Cardinality(v.saved) < v.asked /\ v.next > 0
    <3>1. PICK w : w = [v EXCEPT !.next = @ - 1, !.saved = @ \cup {v.next}]
      OBVIOUS
    <3>2. stored' = stored \cup {v.next} /\ work' = [work EXCEPT ![t] = w]
      BY ZenonT(60), <1>0, <1>6, <2>2, <3>1 DEF Reports!upsert_activities
    <3>3. v.next - 1 \in 0 .. activities /\ v.next \in 1 .. activities
      BY <1>1, <1>2, <2>2
    <3>4. v.saved \cup {v.next} \in SUBSET (1 .. activities)
      BY <1>2, <3>3
    <3>5. w \in Works(activities) /\ w.pc = v.pc /\ w.saved = v.saved \cup {v.next}
      BY <1>1, <3>1, <3>3, <3>4 DEF Works
    <3>6. stored' \subseteq 1 .. activities /\ (last' = t => w.saved \subseteq stored')
      BY <1>1, <2>1, <3>2, <3>3, <3>5
    <3>7. TaskStep(t, w, s)
      BY <1>1, <2>1, <3>2, <3>5, <3>6 DEF TaskStep
    <3> QED  BY <3>7, TaskMoves
  <2>3. CASE ~(Reports!Cardinality(v.saved) < v.asked /\ v.next > 0)
    <3>1. PICK w : w = [v EXCEPT !.pc = "metadata"]
      OBVIOUS
    <3>2. stored' = stored /\ work' = [work EXCEPT ![t] = w]
      BY <1>0, <1>6, <2>3, <3>1 DEF Reports!upsert_activities
    <3>3. w \in Works(activities) /\ w.pc = "metadata" /\ w.saved = v.saved
      BY <1>1, <3>1 DEF Works, WorkSteps
    <3> QED  BY <1>1, <1>3, <2>1, <3>2, <3>3
  <2> QED  BY <2>2, <2>3
<1>7. CASE Reports!ensure_market_metadata_for_slugs(t)
  <2>1. /\ v.pc = "metadata" /\ stored' = stored /\ task' = task /\ metadata' = metadata
        /\ inflight' = inflight /\ last' = last /\ lost' = lost /\ fails' = fails /\ Reports!analysis_only
    BY <1>0, <1>7 DEF Reports!ensure_market_metadata_for_slugs
  <2>2. PICK w, x : w = [v EXCEPT !.pc = "clear"] /\ x = [v EXCEPT !.pc = "fetch"]
    OBVIOUS
  <2>3. /\ w \in Works(activities) /\ w.pc = "clear" /\ w.saved = v.saved
        /\ x \in Works(activities) /\ x.pc = "fetch" /\ x.saved = v.saved
    BY <1>1, <2>2 DEF Works, WorkSteps
  <2>4. \/ work' = [work EXCEPT ![t] = w] /\ fetching' = fetching
        \/ work' = [work EXCEPT ![t] = x] /\ fetching' = TRUE
    BY <1>0, <1>7, <2>2 DEF Reports!ensure_market_metadata_for_slugs
  <2> QED  BY <1>1, <1>3, <2>1, <2>3, <2>4
<1>8. CASE Reports!upsert_market_metadata_rows(t)
  <2>1. PICK w : w = [v EXCEPT !.pc = "clear"]
    OBVIOUS
  <2>2. /\ v.pc = "upsert" /\ work' = [work EXCEPT ![t] = w] /\ stored' = stored /\ task' = task
        /\ fetching' = fetching /\ inflight' = inflight /\ last' = last /\ lost' = lost /\ fails' = fails
        /\ metadata' = (IF v.row = "none" THEN metadata
                        ELSE [written |-> metadata.written + 1, result |-> v.row])
        /\ Reports!analysis_only
    BY <1>0, <1>8, <2>1 DEF Reports!upsert_market_metadata_rows
  <2>3. w \in Works(activities) /\ w.pc = "clear" /\ w.saved = v.saved
    BY <1>1, <2>1 DEF Works, WorkSteps
  <2>4. metadata' \in [written : Nat, result : {"none", "open", "closed"}]
    BY <1>1, <1>2, <2>2
  <2> QED  BY <1>1, <1>3, <2>2, <2>3, <2>4
<1>9. CASE Reports!clear_report_snapshot_cache(t)
  <2>1. PICK w : w = [v EXCEPT !.pc = "finish"]
    OBVIOUS
  <2>2. /\ v.pc = "clear" /\ work' = [work EXCEPT ![t] = w] /\ stored' = stored /\ task' = task
        /\ fetching' = fetching /\ inflight' = NoOne /\ last' = last /\ lost' = lost /\ fails' = fails
        /\ metadata' = metadata /\ Reports!analysis_only
    BY <1>0, <1>9, <2>1 DEF Reports!clear_report_snapshot_cache
  <2>3. w \in Works(activities) /\ w.pc = "finish" /\ w.saved = v.saved
    BY <1>1, <2>1 DEF Works, WorkSteps
  <2> QED  BY <1>1, <1>3, <2>2, <2>3
<1>10. CASE Reports!Finishes(t)
  <2>1. PICK w : w = [v EXCEPT !.pc = "off"]
    OBVIOUS
  <2>2. PICK x \in TaskStatuses : x = "done"
    BY DEF TaskStatuses
  <2>3. /\ v.pc = "finish" /\ work' = [work EXCEPT ![t] = w] /\ task' = [task EXCEPT ![t] = x]
        /\ stored' = stored /\ fetching' = fetching /\ inflight' = inflight /\ last' = last
        /\ lost' = lost /\ fails' = fails /\ metadata' = metadata /\ Reports!analysis_only
    BY <1>0, <1>10, <2>1, <2>2 DEF Reports!Finishes
  <2>4. w \in Works(activities) /\ w.pc = "off" /\ w.saved = v.saved
    BY <1>1, <2>1 DEF Works, WorkSteps
  <2>5. TaskStep(t, w, x)
    BY <1>1, <2>2, <2>3, <2>4 DEF TaskStep
  <2> QED  BY <2>5, TaskMoves
<1>11. CASE Reports!AnalysisFails(t)
  <2>1. PICK w : w = Reports!NoWork
    OBVIOUS
  <2>2. w \in Works(activities) /\ w.pc = "off" /\ w.saved = {}
    BY <1>1, <2>1 DEF Works, WorkSteps, Reports!NoWork
  <2>3. PICK x \in TaskStatuses : x = "error"
    BY DEF TaskStatuses
  <2>4. /\ v.pc \notin {"off", "fetch"} /\ fails < ReportFailures /\ fails' = fails + 1
        /\ work' = [work EXCEPT ![t] = w] /\ stored' = stored /\ fetching' = fetching
        /\ inflight' = inflight /\ last' = last /\ metadata' = metadata /\ Reports!analysis_only
        /\ \/ task' = [task EXCEPT ![t] = x] /\ lost' = lost
           \/ lost' = lost \cup {t} /\ task' = task
    BY <1>0, <1>11, <2>1, <2>3 DEF Reports!AnalysisFails
  <2>5. fails' \in 0 .. ReportFailures
    BY <1>1, <2>4, ReportConstants
  <2>6. CASE task' = [task EXCEPT ![t] = x] /\ lost' = lost
    <3>1. TaskStep(t, w, x)
      BY <1>1, <2>2, <2>3, <2>4, <2>5, <2>6 DEF TaskStep
    <3> QED  BY <3>1, TaskMoves
  <2>7. CASE lost' = lost \cup {t} /\ task' = task
    <3>1. TaskStep(t, w, s)
      BY <1>1, <2>2, <2>4, <2>5, <2>7 DEF TaskStep
    <3> QED  BY <3>1, TaskMoves
  <2> QED  BY <2>4, <2>6, <2>7
<1>12. CASE Reports!delete_finished_tasks_before(t)
  <2>1. PICK x \in TaskStatuses : x = "deleted"
    BY DEF TaskStatuses
  <2>2. /\ task' = [task EXCEPT ![t] = x] /\ work' = work
        /\ stored' = stored /\ fetching' = fetching /\ inflight' = inflight /\ last' = last
        /\ lost' = lost /\ fails' = fails /\ metadata' = metadata /\ Reports!analysis_only
    BY <1>12, <2>1 DEF Reports!delete_finished_tasks_before
  <2>3. TaskStep(t, v, x)
    BY <1>1, <2>1, <2>2 DEF TaskStep
  <2> QED  BY <2>3, TaskMoves
<1> QED  BY <1>4, <1>5, <1>6, <1>7, <1>8, <1>9, <1>10, <1>11, <1>12 DEF Reports!Analysis

LEMMA FetchKeeps == ASSUME ReportsInv, Reports!fetch_market_metadata_row PROVE ReportsInv'
<1>0. /\ AnalysesTyped /\ BuildsTyped /\ ReadersTyped /\ NotYetStored
      /\ Reports!RunningIsAtWork /\ Reports!LastRebuildIsWhole
  BY DEF ReportsInv
<1>1. PICK found \in {IF resolved THEN "closed" ELSE "open", "none"} :
        /\ found = "none" => fails < ReportFailures
        /\ fails' = IF found = "none" THEN fails + 1 ELSE fails
        /\ work' = [t \in AnalysisTasks |-> IF work[t].pc = "fetch"
                                            THEN [work[t] EXCEPT !.pc = "upsert", !.row = found] ELSE work[t]]
  BY DEF Reports!fetch_market_metadata_row
<1>2. /\ fetching' = FALSE /\ stored' = stored /\ metadata' = metadata /\ task' = task
      /\ inflight' = inflight /\ last' = last /\ lost' = lost /\ activities' = activities
      /\ resolved' = resolved /\ build' = build /\ reader' = reader /\ restarts' = restarts
  BY DEF Reports!fetch_market_metadata_row, Reports!analysis_only
<1>3. ASSUME NEW t \in AnalysisTasks
      PROVE  /\ work'[t] \in Works(activities) /\ work'[t].saved = work[t].saved /\ work'[t].pc # "fetch"
             /\ work'[t].pc = "delete" <=> work[t].pc = "delete"
             /\ work'[t].pc = "off" <=> work[t].pc = "off"
  <2>1. work[t] \in Works(activities)
    BY <1>0 DEF AnalysesTyped
  <2>2. CASE work[t].pc = "fetch"
    <3>1. PICK w : w = [work[t] EXCEPT !.pc = "upsert", !.row = found]
      OBVIOUS
    <3>2. found \in {"none", "open", "closed"}
      BY <1>1
    <3>3. w \in Works(activities) /\ w.pc = "upsert" /\ w.saved = work[t].saved
      BY <2>1, <3>1, <3>2 DEF Works, WorkSteps
    <3>4. work'[t] = w
      BY <1>1, <2>2, <3>1
    <3> QED  BY <2>2, <3>3, <3>4
  <2>3. CASE work[t].pc # "fetch"
    <3>1. work'[t] = work[t]
      BY <1>1, <2>3
    <3> QED  BY <2>1, <2>3, <3>1
  <2> QED  BY <2>2, <2>3
<1>4. work' \in [AnalysisTasks -> Works(activities)]
  <2>1. PICK f, S : f = work' /\ S = Works(activities)
    OBVIOUS
  <2>2. f = [t \in AnalysisTasks |-> f[t]]
    BY <1>1, <2>1
  <2>3. \A t \in AnalysisTasks : f[t] \in S
    BY <1>3, <2>1
  <2>4. f \in [AnalysisTasks -> S]
    BY <2>2, <2>3
  <2> QED  BY <2>1, <2>4
<1>5. fails' \in 0 .. ReportFailures
  <2>1. fails \in 0 .. ReportFailures /\ ReportFailures \in Nat
    BY <1>0, ReportConstants DEF AnalysesTyped
  <2>2. /\ found = "none" => fails < ReportFailures
        /\ fails' = IF found = "none" THEN fails + 1 ELSE fails
    BY <1>1
  <2>3. CASE found = "none"
    BY <2>1, <2>2, <2>3
  <2>4. CASE found # "none"
    BY <2>1, <2>2, <2>4
  <2> QED  BY <2>3, <2>4
<1>6. AnalysesTyped'
  <2>1. fetching' <=> \E t \in AnalysisTasks : work'[t].pc = "fetch"
    BY <1>2, <1>3
  <2> QED  BY <1>0, <1>2, <1>4, <1>5, <2>1 DEF AnalysesTyped
<1>7. BuildsTyped' /\ ReadersTyped'
  BY <1>0, <1>2 DEF BuildsTyped, ReadersTyped, IsBuild, IsRead
<1>8. NotYetStored'
  BY <1>0, <1>2, <1>3 DEF NotYetStored
<1>9. Reports!RunningIsAtWork'
  BY <1>0, <1>2, <1>3 DEF Reports!RunningIsAtWork
<1>10. Reports!LastRebuildIsWhole'
  BY <1>0, <1>2, <1>3 DEF Reports!LastRebuildIsWhole
<1> QED  BY <1>6, <1>7, <1>8, <1>9, <1>10 DEF ReportsInv

LEMMA SnapshotHolds ==
  ASSUME ReportsInv
  PROVE  /\ BuildsTyped /\ ReadersTyped /\ inflight \in Builds \cup {NoOne}
         /\ fails \in 0 .. ReportFailures /\ ReportFailures \in Nat
         /\ \A r \in Readers : IsRead(reader[r])
         /\ \A b \in Builds : IsBuild(build[b])
BY ReportConstants DEF ReportsInv, AnalysesTyped, BuildsTyped, ReadersTyped

LEMMA NoReadTyped ==
  /\ IsRead(Reports!NoRead) /\ IsBuild(Reports!NoBuild)
  /\ \A b \in Builds : IsRead([Reports!NoRead EXCEPT !.pc = "waiting", !.build = b])
<1>1. PICK n : n = Reports!NoRead
  OBVIOUS
<1>2. DOMAIN n = {"pc", "key", "any", "build"} /\ n.pc = "idle" /\ n.build = NoOne
  BY <1>1 DEF Reports!NoRead
<1>3. IsRead(n)
  BY <1>2 DEF IsRead, ReadSteps
<1>4. ASSUME NEW b \in Builds PROVE IsRead([n EXCEPT !.pc = "waiting", !.build = b])
  <2>1. b # NoOne
    BY ReportConstants
  <2>2. PICK x : x = [n EXCEPT !.pc = "waiting", !.build = b]
    OBVIOUS
  <2>3. DOMAIN x = {"pc", "key", "any", "build"} /\ x.pc = "waiting" /\ x.build = b
    BY <1>2, <2>2
  <2> QED  BY <2>1, <2>2, <2>3 DEF IsRead, ReadSteps
<1>5. IsBuild(Reports!NoBuild)
  BY DEF Reports!NoBuild, IsBuild, BuildSteps
<1> QED  BY <1>1, <1>3, <1>4, <1>5

LEMMA ReaderKeeps ==
  ASSUME ReportsInv, NEW r \in Readers, Reports!Asks(r) \/ Reports!Answers(r)
  PROVE  ReportsInv'
<1>0. /\ BuildsTyped /\ ReadersTyped /\ inflight \in Builds \cup {NoOne}
      /\ fails \in 0 .. ReportFailures /\ IsRead(reader[r])
  BY SnapshotHolds
<1>1. PICK v : v = reader[r]
  OBVIOUS
<1>2. /\ DOMAIN v = {"pc", "key", "any", "build"} /\ v.pc \in ReadSteps
      /\ v.pc = "waiting" <=> v.build # NoOne
  BY <1>0, <1>1 DEF IsRead
\* The reader comes to x, and no build moves.
<1>3. ASSUME NEW x, IsRead(x), reader' = [reader EXCEPT ![r] = x], build' = build, inflight' = inflight,
             fails' = fails, Reports!snapshot_only
      PROVE  ReportsInv'
  <2>1. BuildsTyped'
    BY <1>0, <1>3 DEF BuildsTyped, IsBuild
  <2>2. ReadersTyped'
    BY <1>0, <1>3, ReaderMoves
  <2> QED  BY <1>0, <1>3, <2>1, <2>2, SnapshotsMove
<1>4. CASE Reports!ReadsBounds(r)
  <2>1. PICK x : x = [v EXCEPT !.pc = "slugs", !.key = [Reports!CurrentKey EXCEPT !.written = 0]]
    OBVIOUS
  <2>2. /\ v.pc = "idle" /\ build' = build /\ inflight' = inflight /\ fails' = fails /\ Reports!snapshot_only
        /\ reader' = [reader EXCEPT ![r] = x]
    BY <1>1, <1>4, <2>1 DEF Reports!ReadsBounds
  <2>3. DOMAIN x = DOMAIN v /\ x.pc = "slugs" /\ x.build = v.build
    BY <1>2, <2>1
  <2>4. IsRead(x)
    BY <1>2, <2>2, <2>3 DEF IsRead, ReadSteps
  <2> QED  BY <1>3, <2>2, <2>4
<1>5. CASE Reports!ReadsSlugs(r)
  <2>1. PICK x : x = [v EXCEPT !.pc = "metadata", !.any = stored # {}]
    OBVIOUS
  <2>2. /\ v.pc = "slugs" /\ build' = build /\ inflight' = inflight /\ fails' = fails /\ Reports!snapshot_only
        /\ reader' = [reader EXCEPT ![r] = x]
    BY <1>1, <1>5, <2>1 DEF Reports!ReadsSlugs
  <2>3. DOMAIN x = DOMAIN v /\ x.pc = "metadata" /\ x.build = v.build
    BY <1>2, <2>1
  <2>4. IsRead(x)
    BY <1>2, <2>2, <2>3 DEF IsRead, ReadSteps
  <2> QED  BY <1>3, <2>2, <2>4
<1>6. CASE Reports!get_report_snapshot(r)
  <2>1. PICK key : key = [reader[r].key EXCEPT !.written = IF reader[r].any THEN metadata.written ELSE 0]
    OBVIOUS
  <2>2. fails' = fails /\ Reports!snapshot_only
    BY <1>6 DEF Reports!get_report_snapshot
  <2>3. \/ reader' = [reader EXCEPT ![r] = Reports!NoRead] /\ inflight' = inflight /\ build' = build
        \/ /\ inflight # NoOne /\ inflight' = inflight /\ build' = build
           /\ reader' = [reader EXCEPT ![r] = [Reports!NoRead EXCEPT !.pc = "waiting", !.build = inflight]]
        \/ \E b \in Builds :
             /\ reader' = [reader EXCEPT ![r] = [Reports!NoRead EXCEPT !.pc = "waiting", !.build = b]]
             /\ inflight' = b
             /\ build' = [build EXCEPT ![b] = [Reports!NoBuild EXCEPT !.pc = "read", !.key = key]]
    BY <1>6, <2>1 DEF Reports!get_report_snapshot
  <2>4. CASE reader' = [reader EXCEPT ![r] = Reports!NoRead] /\ inflight' = inflight /\ build' = build
    BY <1>3, <2>2, <2>4, NoReadTyped
  <2>5. CASE /\ inflight # NoOne /\ inflight' = inflight /\ build' = build
             /\ reader' = [reader EXCEPT ![r] = [Reports!NoRead EXCEPT !.pc = "waiting", !.build = inflight]]
    <3>1. inflight \in Builds
      BY <1>0, <2>5
    <3>2. PICK x : x = [Reports!NoRead EXCEPT !.pc = "waiting", !.build = inflight]
      OBVIOUS
    <3>3. IsRead(x)
      BY <3>1, <3>2, NoReadTyped
    <3> QED  BY <1>3, <2>2, <2>5, <3>2, <3>3
  <2>6. ASSUME NEW b \in Builds,
               reader' = [reader EXCEPT ![r] = [Reports!NoRead EXCEPT !.pc = "waiting", !.build = b]],
               inflight' = b,
               build' = [build EXCEPT ![b] = [Reports!NoBuild EXCEPT !.pc = "read", !.key = key]]
        PROVE  ReportsInv'
    <3>1. PICK x, y, n : /\ x = [Reports!NoRead EXCEPT !.pc = "waiting", !.build = b]
                         /\ n = Reports!NoBuild /\ y = [n EXCEPT !.pc = "read", !.key = key]
      OBVIOUS
    <3>2. IsRead(x) /\ IsBuild(n)
      BY <3>1, NoReadTyped
    <3>3. IsBuild(y)
      BY <3>1, <3>2 DEF IsBuild, BuildSteps
    <3>4. BuildsTyped'
      BY <1>0, <2>6, <3>1, <3>3, BuildMoves
    <3>5. ReadersTyped'
      BY <1>0, <2>6, <3>1, <3>2, ReaderMoves
    <3> QED  BY <1>0, <2>2, <3>4, <3>5, SnapshotsMove
  <2> QED  BY <2>3, <2>4, <2>5, <2>6
<1>7. CASE Reports!Answers(r)
  <2>1. /\ reader' = [reader EXCEPT ![r] = Reports!NoRead] /\ build' = build /\ inflight' = inflight
        /\ fails' = fails /\ Reports!snapshot_only
    BY <1>7 DEF Reports!Answers
  <2> QED  BY <1>3, <2>1, NoReadTyped
<1> QED  BY <1>4, <1>5, <1>6, <1>7 DEF Reports!Asks

LEMMA BuildKeeps ==
  ASSUME ReportsInv, NEW b \in Builds,
         Reports!Build(b) \/ Reports!BuildFails(b) \/ Reports!clear_snapshot_task(b)
  PROVE  ReportsInv'
<1>0. /\ BuildsTyped /\ ReadersTyped /\ inflight \in Builds \cup {NoOne}
      /\ fails \in 0 .. ReportFailures /\ ReportFailures \in Nat /\ IsBuild(build[b])
  BY SnapshotHolds
<1>1. PICK v : v = build[b]
  OBVIOUS
<1>2. DOMAIN v = {"pc", "key", "rows", "written"}
  BY <1>0, <1>1 DEF IsBuild
\* The build comes to x, and no reader moves.
<1>3. ASSUME NEW x, IsBuild(x), build' = [build EXCEPT ![b] = x], inflight' \in Builds \cup {NoOne},
             reader' = reader, fails' \in 0 .. ReportFailures, Reports!snapshot_only
      PROVE  ReportsInv'
  <2>1. BuildsTyped'
    BY <1>0, <1>3, BuildMoves
  <2>2. ReadersTyped'
    BY <1>0, <1>3 DEF ReadersTyped, IsRead
  <2> QED  BY <1>3, <2>1, <2>2, SnapshotsMove
<1>4. CASE Reports!list_account_activities(b)
  <2>1. PICK x : x = [v EXCEPT !.pc = "list", !.rows = stored]
    OBVIOUS
  <2>2. /\ build' = [build EXCEPT ![b] = x] /\ inflight' = inflight /\ reader' = reader /\ fails' = fails
        /\ Reports!snapshot_only
    BY <1>1, <1>4, <2>1 DEF Reports!list_account_activities
  <2>3. IsBuild(x)
    BY <1>2, <2>1 DEF IsBuild, BuildSteps
  <2> QED  BY <1>0, <1>3, <2>2, <2>3
<1>5. CASE Reports!list_market_metadata(b)
  <2>1. PICK x : x = [v EXCEPT !.pc = "store",
                               !.written = IF build[b].rows = {} THEN 0 ELSE metadata.written]
    OBVIOUS
  <2>2. /\ build' = [build EXCEPT ![b] = x] /\ inflight' = inflight /\ reader' = reader /\ fails' = fails
        /\ Reports!snapshot_only
    BY <1>1, <1>5, <2>1 DEF Reports!list_market_metadata
  <2>3. IsBuild(x)
    BY <1>2, <2>1 DEF IsBuild, BuildSteps
  <2> QED  BY <1>0, <1>3, <2>2, <2>3
<1>6. CASE Reports!build_report_snapshot(b)
  <2>1. PICK n, x : n = Reports!NoBuild /\ x = [n EXCEPT !.pc = "done"]
    OBVIOUS
  <2>2. /\ build' = [build EXCEPT ![b] = x] /\ inflight' = inflight /\ reader' = reader /\ fails' = fails
        /\ Reports!snapshot_only
    BY <1>6, <2>1 DEF Reports!build_report_snapshot
  <2>3. IsBuild(n)
    BY <2>1, NoReadTyped
  <2>4. IsBuild(x)
    BY <2>1, <2>3 DEF IsBuild, BuildSteps
  <2> QED  BY <1>0, <1>3, <2>2, <2>4
<1>7. CASE Reports!BuildFails(b)
  <2>1. PICK n, x : n = Reports!NoBuild /\ x = [n EXCEPT !.pc = "failed"]
    OBVIOUS
  <2>2. /\ build' = [build EXCEPT ![b] = x] /\ inflight' = inflight /\ reader' = reader
        /\ fails < ReportFailures /\ fails' = fails + 1 /\ Reports!snapshot_only
    BY <1>7, <2>1 DEF Reports!BuildFails
  <2>3. IsBuild(n)
    BY <2>1, NoReadTyped
  <2>4. IsBuild(x)
    BY <2>1, <2>3 DEF IsBuild, BuildSteps
  <2>5. fails' \in 0 .. ReportFailures
    BY <1>0, <2>2
  <2> QED  BY <1>0, <1>3, <2>2, <2>4, <2>5
<1>8. CASE Reports!clear_snapshot_task(b)
  <2>1. /\ build' = build /\ inflight' = NoOne /\ reader' = reader /\ fails' = fails /\ Reports!snapshot_only
    BY <1>8 DEF Reports!clear_snapshot_task
  <2>2. build' = [build EXCEPT ![b] = v]
    BY <1>0, <1>1, <2>1 DEF BuildsTyped
  <2> QED  BY <1>0, <1>1, <1>3, <2>1, <2>2
<1> QED  BY <1>4, <1>5, <1>6, <1>7, <1>8 DEF Reports!Build

\* The others: the cache, Polymarket, and the process.
LEMMA MovesKeep ==
  ASSUME ReportsInv, Reports!PolymarketMoves
  PROVE  ReportsInv'
<1>0. /\ AnalysesTyped /\ BuildsTyped /\ ReadersTyped /\ NotYetStored
      /\ Reports!RunningIsAtWork /\ Reports!LastRebuildIsWhole
  BY DEF ReportsInv
<1>1. /\ stored' = stored /\ metadata' = metadata /\ task' = task /\ work' = work /\ fetching' = fetching
      /\ inflight' = inflight /\ build' = build /\ reader' = reader /\ last' = last /\ lost' = lost
      /\ fails' = fails /\ restarts' = restarts
      /\ \/ activities < MaxTrades /\ activities' = activities + 1 /\ resolved' = resolved
         \/ resolved' = TRUE /\ activities' = activities
  BY DEF Reports!PolymarketMoves
<1>2. activities' \in 0 .. MaxTrades /\ activities \in Nat /\ activities <= activities' /\ activities' \in Nat
  BY <1>0, <1>1, ReportConstants DEF AnalysesTyped
<1>3. stored' \subseteq 1 .. activities'
  <2>1. stored \subseteq 1 .. activities
    BY <1>0 DEF AnalysesTyped
  <2>2. \A x \in 1 .. activities : x \in 1 .. activities'
    BY <1>2
  <2> QED  BY <1>1, <2>1, <2>2
<1>4. work' \in [AnalysisTasks -> Works(activities')]
  <2>1. work \in [AnalysisTasks -> Works(activities)]
    BY <1>0 DEF AnalysesTyped
  <2>2. \A x : /\ x \in 1 .. activities => x \in 1 .. activities'
               /\ x \in 0 .. activities => x \in 0 .. activities'
    BY <1>2
  <2>3. ASSUME NEW w \in Works(activities) PROVE w \in Works(activities')
    BY <2>2 DEF Works
  <2> QED  BY <1>1, <2>1, <2>3
<1>5. AnalysesTyped'
  BY <1>0, <1>1, <1>2, <1>3, <1>4 DEF AnalysesTyped
<1>6. BuildsTyped' /\ ReadersTyped'
  BY <1>0, <1>1 DEF BuildsTyped, ReadersTyped, IsBuild, IsRead
<1>7. NotYetStored' /\ Reports!RunningIsAtWork' /\ Reports!LastRebuildIsWhole'
  BY <1>0, <1>1 DEF NotYetStored, Reports!RunningIsAtWork, Reports!LastRebuildIsWhole
<1> QED  BY <1>5, <1>6, <1>7 DEF ReportsInv

LEMMA CrashKeeps ==
  ASSUME ReportsInv, Reports!Crash
  PROVE  ReportsInv'
<1>0. AnalysesTyped /\ BuildsTyped
  BY DEF ReportsInv
<1>1. /\ restarts < ReportRestarts /\ restarts' = restarts + 1
      /\ task' = [t \in AnalysisTasks |-> IF task[t] = "running" THEN "error" ELSE task[t]]
      /\ work' = [t \in AnalysisTasks |-> Reports!NoWork] /\ fetching' = FALSE /\ inflight' = NoOne
      /\ build' = [b \in Builds |-> Reports!NoBuild] /\ reader' = [r \in Readers |-> Reports!NoRead]
      /\ lost' = {} /\ activities' = activities /\ resolved' = resolved /\ stored' = stored
      /\ metadata' = metadata /\ last' = last /\ fails' = fails
  BY DEF Reports!Crash, Reports!fail_interrupted_running_tasks
<1>2. PICK w : w = Reports!NoWork
  OBVIOUS
<1>3. activities \in Nat /\ task \in [AnalysisTasks -> TaskStatuses]
  BY <1>0, ReportConstants DEF AnalysesTyped
<1>4. w \in Works(activities) /\ w.pc = "off" /\ w.saved = {}
  BY <1>2, <1>3 DEF Reports!NoWork, Works, WorkSteps
<1>5. \A t \in AnalysisTasks : work'[t] = w /\ task'[t] \in TaskStatuses \ {"running"}
  BY <1>1, <1>2, <1>3 DEF TaskStatuses
<1>6. AnalysesTyped'
  <2>1. work' \in [AnalysisTasks -> Works(activities')]
    BY <1>1, <1>2, <1>4
  <2>2. task' \in [AnalysisTasks -> TaskStatuses]
    BY <1>1, <1>3 DEF TaskStatuses
  <2>3. fetching' \in BOOLEAN /\ (fetching' <=> \E t \in AnalysisTasks : work'[t].pc = "fetch")
    BY <1>1, <1>4, <1>5
  <2>4. restarts' \in 0 .. ReportRestarts
    BY <1>0, <1>1, ReportConstants DEF AnalysesTyped
  <2>5. lost' \subseteq AnalysisTasks
    BY <1>1
  <2> QED  BY <1>0, <1>1, <2>1, <2>2, <2>3, <2>4, <2>5 DEF AnalysesTyped
<1>7. BuildsTyped'
  <2>1. build' = [b \in Builds |-> build'[b]] /\ \A b \in Builds : build'[b] = Reports!NoBuild
    BY <1>1
  <2>2. \A b \in Builds : IsBuild(build'[b])
    BY <2>1, NoReadTyped
  <2> QED  BY <1>1, <2>1, <2>2 DEF BuildsTyped, IsBuild
<1>8. ReadersTyped'
  <2>1. reader' = [r \in Readers |-> reader'[r]] /\ \A r \in Readers : reader'[r] = Reports!NoRead
    BY <1>1
  <2>2. \A r \in Readers : IsRead(reader'[r])
    BY <2>1, NoReadTyped
  <2> QED  BY <2>1, <2>2 DEF ReadersTyped, IsRead
<1>9. NotYetStored'
  BY <1>4, <1>5 DEF NotYetStored
<1>10. Reports!RunningIsAtWork'
  BY <1>5 DEF Reports!RunningIsAtWork
<1>11. Reports!LastRebuildIsWhole'
  BY <1>4, <1>5 DEF Reports!LastRebuildIsWhole
<1> QED  BY <1>6, <1>7, <1>8, <1>9, <1>10, <1>11 DEF ReportsInv

LEMMA ReportsKeep == ASSUME ReportsInv, [Reports!Next]_Reports!vars PROVE ReportsInv'
<1>0. BuildsTyped /\ ReadersTyped /\ fails \in 0 .. ReportFailures
  BY SnapshotHolds
<1>1. CASE Reports!snapshot_expired
  <2>1. BuildsTyped' /\ ReadersTyped' /\ fails' = fails /\ Reports!snapshot_only
    BY <1>0, <1>1 DEF Reports!snapshot_expired, BuildsTyped, ReadersTyped, IsBuild, IsRead
  <2> QED  BY <1>0, <2>1, SnapshotsMove
<1>2. CASE UNCHANGED Reports!vars
  <2>1. BuildsTyped' /\ ReadersTyped' /\ fails' = fails /\ Reports!snapshot_only
    BY <1>0, <1>2 DEF Reports!vars, Reports!snapshot_only, BuildsTyped, ReadersTyped, IsBuild, IsRead
  <2> QED  BY <1>0, <2>1, SnapshotsMove
<1>3. ASSUME NEW t \in AnalysisTasks,
             \/ \E n \in ActivitiesAsked : Reports!analyze_account(t, n)
             \/ Reports!Analysis(t) \/ Reports!AnalysisFails(t) \/ Reports!delete_finished_tasks_before(t)
      PROVE  ReportsInv'
  BY <1>3, AnalysisKeeps
<1>4. ASSUME NEW r \in Readers, Reports!Asks(r) \/ Reports!Answers(r) PROVE ReportsInv'
  BY <1>4, ReaderKeeps
<1>5. ASSUME NEW b \in Builds, Reports!Build(b) \/ Reports!BuildFails(b) \/ Reports!clear_snapshot_task(b)
      PROVE  ReportsInv'
  BY <1>5, BuildKeeps
<1> QED  BY <1>1, <1>2, <1>3, <1>4, <1>5, FetchKeeps, MovesKeep, CrashKeeps DEF Reports!Next

\* And the types that TLC checks.
LEMMA ReportsTypes == ASSUME ReportsInv PROVE Reports!TypeOK
<1>1. AnalysesTyped /\ BuildsTyped /\ ReadersTyped
  BY DEF ReportsInv
<1>2. ASSUME NEW t \in AnalysisTasks
      PROVE  /\ task[t] \in {"none", "running", "done", "error", "deleted"}
             /\ work[t].pc \in {"off", "delete", "download", "metadata", "fetch", "upsert", "clear", "finish"}
             /\ work[t].saved \subseteq 1 .. activities /\ work[t].next \in 0 .. activities
  <2>1. task[t] \in TaskStatuses /\ work[t] \in Works(activities)
    BY <1>1 DEF AnalysesTyped
  <2> QED  BY <2>1 DEF TaskStatuses, Works, WorkSteps
<1>3. metadata.written \in Nat /\ metadata.result \in {"none", "open", "closed"}
  BY <1>1 DEF AnalysesTyped
<1>4. fetching = (\E t \in AnalysisTasks : work[t].pc = "fetch")
  BY <1>1 DEF AnalysesTyped
<1>5. \A b \in Builds : build[b].pc \in {"off", "read", "list", "store", "done", "failed"}
  BY <1>1 DEF BuildsTyped, IsBuild, BuildSteps
<1>6. \A r \in Readers : /\ reader[r].pc \in {"idle", "slugs", "metadata", "waiting"}
                         /\ (reader[r].pc = "waiting") = (reader[r].build # NoOne)
  BY <1>1 DEF ReadersTyped, IsRead, ReadSteps
<1> QED  BY <1>1, <1>2, <1>3, <1>4, <1>5, <1>6 DEF Reports!TypeOK, AnalysesTyped, BuildsTyped

-----------------------------------------------------------------------------
(* The ledger of a market *)

Outcomes == {"up", "down"}
Knowns   == {<< >>, <<"up">>, <<"down">>, <<"up", "down">>, <<"down", "up">>}
Types    == {"BUY", "SELL", "SPLIT", "MERGE", "REDEEM", "MAKER_REBATE"}

Accounts == [known : Knowns, buy : [Outcomes -> Nat], current : [Outcomes -> Int], cost : Nat,
             recovery : Nat, rebate : Nat, merged : Nat, redeemed : Nat, redeemed_shares : Nat,
             redeem_count : Nat, merge_count : Nat, sell_return : Nat, incomplete : BOOLEAN]

Rows == [type : Types, outcome : Outcomes \cup {"none"}, size : Nat, amount : Nat]

\* What is known of the activities of each type.
RowOK(a) ==
  /\ a.type \in {"BUY", "SELL"} => a.outcome \in Outcomes
  /\ a.type \in {"SPLIT", "MERGE"} => a.size = a.amount
  /\ a.type = "REDEEM" => a.size \in {0, a.amount}
  /\ a.type # "REDEEM" => a.amount > 0

\* What an activity adds to the cash, and to the shares of an outcome.
CashOf(a) == IF a.type \in {"BUY", "SPLIT"} THEN -a.amount ELSE a.amount
SharesOf(a, o) ==
  IF a.type = "SPLIT" \/ (a.type = "BUY" /\ a.outcome = o) THEN a.size
  ELSE IF a.type = "MERGE" \/ (a.type = "SELL" /\ a.outcome = o) THEN -a.size ELSE 0

-----------------------------------------------------------------------------
(* What an activity does to the accumulator *)

LEMMA KnownParts ==
  /\ Ledger!ToSet(<< >>) = {} /\ Ledger!ToSet(<<"up">>) = {"up"} /\ Ledger!ToSet(<<"down">>) = {"down"}
  /\ Ledger!ToSet(<<"up", "down">>) = Outcomes /\ Ledger!ToSet(<<"down", "up">>) = Outcomes
BY DEF Ledger!ToSet, Outcomes

LEMMA AppendTwo ==
  ASSUME NEW S, NEW a \in S, NEW b \in S
  PROVE  Append(<<a>>, b) = <<a, b>> /\ Append(<< >>, a) = <<a>>
<1>1. PICK s, t, e : s = Append(<<a>>, b) /\ t = <<a, b>> /\ e = Append(<< >>, a)
  OBVIOUS
<1>2. <<a>> \in Seq(S) /\ << >> \in Seq(S) /\ <<a, b>> \in Seq(S)
  OBVIOUS
<1>3. /\ s \in Seq(S) /\ Len(s) = 2 /\ s[1] = a /\ s[2] = b
      /\ t \in Seq(S) /\ Len(t) = 2 /\ t[1] = a /\ t[2] = b
  BY <1>1, <1>2
<1>4. s = t
  BY <1>3, SeqEqual
<1>5. e \in Seq(S) /\ Len(e) = 1 /\ e[1] = a
  BY <1>1, <1>2
<1>6. PICK d : d = <<a>>
  OBVIOUS
<1>7. d \in Seq(S) /\ Len(d) = 1 /\ d[1] = a
  BY <1>6
<1>8. e = d
  BY <1>5, <1>7, SeqEqual
<1> QED  BY <1>1, <1>4, <1>6, <1>8

LEMMA KnownGrows ==
  /\ Append(<< >>, "up") = <<"up">> /\ Append(<< >>, "down") = <<"down">>
  /\ Append(<<"up">>, "down") = <<"up", "down">> /\ Append(<<"down">>, "up") = <<"down", "up">>
<1>1. PICK u, d : u = "up" /\ d = "down" /\ u \in Outcomes /\ d \in Outcomes
  BY DEF Outcomes
<1> QED  BY <1>1, AppendTwo

\* A position is opened for an outcome that has none.
LEMMA OpensParts ==
  ASSUME NEW m \in Accounts, NEW o \in Outcomes
  PROVE  \E k \in Knowns : /\ Ledger!Opens(m, o) = [m EXCEPT !.known = k]
                          /\ Ledger!ToSet(k) = Ledger!ToSet(m.known) \cup {o}
<1>1. PICK k : k = IF o \in Ledger!ToSet(m.known) THEN m.known ELSE Append(m.known, o)
  OBVIOUS
<1>2. m.known \in Knowns
  BY DEF Accounts
<1>3. k \in Knowns /\ Ledger!ToSet(k) = Ledger!ToSet(m.known) \cup {o}
  <2>1. CASE m.known = << >>
    <3>1. o = "up" \/ o = "down"
      BY DEF Outcomes
    <3>2. CASE o = "up"
      BY <1>1, <2>1, <3>2, KnownParts, KnownGrows DEF Outcomes, Knowns
    <3>3. CASE o = "down"
      BY <1>1, <2>1, <3>3, KnownParts, KnownGrows DEF Outcomes, Knowns
    <3> QED  BY <3>1, <3>2, <3>3
  <2>2. CASE m.known = <<"up">>
    <3>1. o = "up" \/ o = "down"
      BY DEF Outcomes
    <3>2. CASE o = "up"
      BY <1>1, <2>2, <3>2, KnownParts, KnownGrows DEF Outcomes, Knowns
    <3>3. CASE o = "down"
      BY <1>1, <2>2, <3>3, KnownParts, KnownGrows DEF Outcomes, Knowns
    <3> QED  BY <3>1, <3>2, <3>3
  <2>3. CASE m.known = <<"down">>
    <3>1. o = "up" \/ o = "down"
      BY DEF Outcomes
    <3>2. CASE o = "up"
      BY <1>1, <2>3, <3>2, KnownParts, KnownGrows DEF Outcomes, Knowns
    <3>3. CASE o = "down"
      BY <1>1, <2>3, <3>3, KnownParts, KnownGrows DEF Outcomes, Knowns
    <3> QED  BY <3>1, <3>2, <3>3
  <2>4. CASE m.known \in {<<"up", "down">>, <<"down", "up">>}
    BY <1>1, <2>4, KnownParts DEF Outcomes, Knowns
  <2> QED  BY <1>2, <2>1, <2>2, <2>3, <2>4 DEF Knowns
<1> QED  BY <1>1, <1>3 DEF Ledger!Opens

Known(m) == Ledger!ToSet(m.known)

\* What each type of row leaves of the accumulator.
IsBought(m, a, n) ==
  /\ n \in Accounts /\ Known(n) = Known(m) \cup {a.outcome}
  /\ n.buy = [m.buy EXCEPT ![a.outcome] = @ + a.size]
  /\ n.current = [m.current EXCEPT ![a.outcome] = @ + a.size]
  /\ n.cost = m.cost + a.amount
  /\ n = [m EXCEPT !.known = n.known, !.buy = n.buy, !.current = n.current, !.cost = n.cost]

LEMMA AppliesBuy ==
  ASSUME NEW m \in Accounts, NEW a \in Rows, RowOK(a), a.type = "BUY",
         NEW n, n = Ledger!apply_activity(m, a)
  PROVE  IsBought(m, a, n)
<1>1. a.outcome \in Outcomes /\ a.size \in Nat /\ a.amount \in Nat
  BY DEF RowOK, Rows
<1>2. n = Ledger!Bought(m, a)
  BY DEF Ledger!apply_activity
<1>3. PICK k \in Knowns : /\ Ledger!Opens(m, a.outcome) = [m EXCEPT !.known = k]
                          /\ Ledger!ToSet(k) = Ledger!ToSet(m.known) \cup {a.outcome}
  BY <1>1, OpensParts
<1>4. m.buy \in [Outcomes -> Nat] /\ m.current \in [Outcomes -> Int] /\ m.cost \in Nat
  BY DEF Accounts
<1>5. PICK b, c, e : /\ b = [m.buy EXCEPT ![a.outcome] = @ + a.size]
                     /\ c = [m.current EXCEPT ![a.outcome] = @ + a.size] /\ e = m.cost + a.amount
  OBVIOUS
<1>6. b \in [Outcomes -> Nat] /\ c \in [Outcomes -> Int] /\ e \in Nat
  BY <1>1, <1>4, <1>5
<1>7. n = [m EXCEPT !.known = k, !.buy = b, !.current = c, !.cost = e]
  BY ZenonT(60), <1>2, <1>3, <1>5 DEF Ledger!Bought, Accounts
<1>8. n \in Accounts /\ n.known = k /\ n.buy = b /\ n.current = c /\ n.cost = e
  BY ZenonT(60), <1>3, <1>6, <1>7 DEF Accounts
<1> QED  BY <1>3, <1>5, <1>7, <1>8 DEF Known, IsBought

IsSold(m, a, n) ==
  /\ n \in Accounts /\ Known(n) = Known(m) \cup {a.outcome}
  /\ n.current = [m.current EXCEPT ![a.outcome] = @ - a.size]
  /\ n.sell_return = m.sell_return + a.amount /\ n.recovery = m.recovery + a.amount
  /\ n = [m EXCEPT !.known = n.known, !.current = n.current,
                   !.sell_return = n.sell_return, !.recovery = n.recovery]

LEMMA AppliesSell ==
  ASSUME NEW m \in Accounts, NEW a \in Rows, RowOK(a), a.type = "SELL",
         NEW n, n = Ledger!apply_activity(m, a)
  PROVE  IsSold(m, a, n)
<1>1. a.outcome \in Outcomes /\ a.size \in Nat /\ a.amount \in Nat
  BY DEF RowOK, Rows
<1>2. n = Ledger!Sold(m, a)
  BY DEF Ledger!apply_activity
<1>3. PICK k \in Knowns : /\ Ledger!Opens(m, a.outcome) = [m EXCEPT !.known = k]
                          /\ Ledger!ToSet(k) = Ledger!ToSet(m.known) \cup {a.outcome}
  BY <1>1, OpensParts
<1>4. m.current \in [Outcomes -> Int] /\ m.sell_return \in Nat /\ m.recovery \in Nat
  BY DEF Accounts
<1>5. PICK c, e, d : /\ c = [m.current EXCEPT ![a.outcome] = @ - a.size]
                     /\ e = m.sell_return + a.amount /\ d = m.recovery + a.amount
  OBVIOUS
<1>6. c \in [Outcomes -> Int] /\ e \in Nat /\ d \in Nat
  BY <1>1, <1>4, <1>5
<1>7. n = [m EXCEPT !.known = k, !.current = c, !.sell_return = e, !.recovery = d]
  BY ZenonT(60), <1>2, <1>3, <1>5 DEF Ledger!Sold, Accounts
<1>8. n \in Accounts /\ n.known = k /\ n.current = c /\ n.sell_return = e /\ n.recovery = d
  BY ZenonT(60), <1>3, <1>6, <1>7 DEF Accounts
<1> QED  BY <1>3, <1>5, <1>7, <1>8 DEF Known, IsSold

\* A split opens both positions, unless nothing says that the market is one of up and down.
IsSplit(m, a, n) ==
  /\ n \in Accounts /\ n.cost = m.cost + a.amount
  /\ n = [m EXCEPT !.known = n.known, !.buy = n.buy, !.current = n.current, !.cost = n.cost]
  /\ \/ ~titled /\ n.known = m.known /\ n.buy = m.buy /\ n.current = m.current
     \/ /\ Known(n) = Outcomes
        /\ n.buy = [o \in Outcomes |-> m.buy[o] + a.size]
        /\ n.current = [o \in Outcomes |-> m.current[o] + a.size]

LEMMA AppliesSplit ==
  ASSUME NEW m \in Accounts, NEW a \in Rows, RowOK(a), a.type = "SPLIT",
         NEW n, n = Ledger!apply_activity(m, a)
  PROVE  IsSplit(m, a, n)
<1>1. a.size \in Nat /\ a.amount \in Nat
  BY DEF Rows
<1>2. n = Ledger!Split(m, a)
  BY DEF Ledger!apply_activity
<1>3. m.buy \in [Outcomes -> Nat] /\ m.current \in [Outcomes -> Int] /\ m.cost \in Nat
  BY DEF Accounts
<1>4. PICK e, p : e = m.cost + a.amount /\ p = [m EXCEPT !.cost = e]
  OBVIOUS
<1>5. e \in Nat /\ p \in Accounts /\ p.buy = m.buy /\ p.current = m.current /\ p.known = m.known
  BY <1>1, <1>3, <1>4 DEF Accounts
<1>6. Ledger!is_up_down_market(p) = Ledger!is_up_down_market(m)
  BY <1>5 DEF Ledger!is_up_down_market
<1>7. CASE ~Ledger!is_up_down_market(m)
  <2>1. n = p /\ ~titled
    BY <1>2, <1>4, <1>7 DEF Ledger!Split, Ledger!is_up_down_market, Accounts
  <2>2. n.cost = e
    BY <1>4, <2>1 DEF Accounts
  <2>3. n = [m EXCEPT !.known = n.known, !.buy = n.buy, !.current = n.current, !.cost = n.cost]
    BY <1>4, <1>5, <2>1, <2>2 DEF Accounts
  <2> QED  BY <1>4, <1>5, <2>1, <2>2, <2>3 DEF IsSplit
<1>8. CASE Ledger!is_up_down_market(m)
  <2>1. "up" \in Outcomes /\ "down" \in Outcomes /\ Outcomes = {"up", "down"}
    BY DEF Outcomes
  <2>2. PICK u : u = "up" /\ u \in Outcomes
    BY <2>1
  <2>3. PICK d : d = "down" /\ d \in Outcomes
    BY <2>1
  <2>4. PICK j \in Knowns : /\ Ledger!Opens(p, u) = [p EXCEPT !.known = j]
                            /\ Ledger!ToSet(j) = Ledger!ToSet(p.known) \cup {u}
    BY <1>5, <2>2, OpensParts
  <2>5. PICK q : q = [p EXCEPT !.known = j]
    OBVIOUS
  <2>6. q \in Accounts /\ q.known = j /\ q.buy = m.buy /\ q.current = m.current
    BY <1>5, <2>4, <2>5 DEF Accounts
  <2>7. PICK k \in Knowns : /\ Ledger!Opens(q, d) = [q EXCEPT !.known = k]
                            /\ Ledger!ToSet(k) = Ledger!ToSet(q.known) \cup {d}
    BY <2>3, <2>6, OpensParts
  <2>8. m.known \in Knowns
    BY DEF Accounts
  <2>9. Ledger!ToSet(m.known) \subseteq Outcomes
    BY <2>8, KnownParts DEF Knowns, Outcomes
  <2>10. Ledger!ToSet(k) = Outcomes
    BY <1>5, <2>1, <2>2, <2>3, <2>4, <2>6, <2>7, <2>9
  <2>11. PICK b, c : /\ b = [o \in Outcomes |-> m.buy[o] + a.size]
                     /\ c = [o \in Outcomes |-> m.current[o] + a.size]
    OBVIOUS
  <2>12. b \in [Outcomes -> Nat] /\ c \in [Outcomes -> Int]
    BY <1>1, <1>3, <2>11
  <2>13. Ledger!Outcomes = Outcomes
    BY DEF Ledger!Outcomes, Outcomes
  <2>14. PICK r : r = Ledger!Opens(Ledger!Opens(p, "up"), "down")
    OBVIOUS
  <2>15. r = [m EXCEPT !.cost = e, !.known = k]
    <3>1. r = [q EXCEPT !.known = k]
      BY <2>2, <2>3, <2>4, <2>5, <2>7, <2>14
    <3>2. q = [m EXCEPT !.cost = e, !.known = j]
      BY <1>4, <2>5 DEF Accounts
    <3> QED  BY <3>1, <3>2 DEF Accounts
  <2>16. r.buy = m.buy /\ r.current = m.current
    BY <2>15 DEF Accounts
  <2>17. PICK v, w : /\ v = [o \in Outcomes |-> r.buy[o] + a.size]
                     /\ w = [o \in Outcomes |-> r.current[o] + a.size]
    OBVIOUS
  <2>18. n = [r EXCEPT !.buy = v, !.current = w]
    BY <1>2, <1>4, <1>6, <1>8, <2>13, <2>14, <2>17 DEF Ledger!Split, Accounts
  <2>19. v = b /\ w = c
    BY <2>11, <2>16, <2>17
  <2>20. n = [m EXCEPT !.known = k, !.buy = b, !.current = c, !.cost = e]
    BY <2>15, <2>18, <2>19 DEF Accounts
  <2>21. n \in Accounts /\ n.known = k /\ n.buy = b /\ n.current = c /\ n.cost = e
    BY ZenonT(60), <1>5, <2>7, <2>12, <2>20 DEF Accounts
  <2> QED  BY <1>4, <2>10, <2>11, <2>20, <2>21 DEF Known, IsSplit
<1> QED  BY <1>7, <1>8

IsMerged(m, a, n) ==
  /\ n \in Accounts
  /\ \A o \in Outcomes :
       n.current[o] = IF o \in Known(m) THEN m.current[o] - a.size ELSE m.current[o]
  /\ n.merged = m.merged + a.size /\ n.recovery = m.recovery + a.amount
  /\ n.merge_count = m.merge_count + 1
  /\ n = [m EXCEPT !.current = n.current, !.merged = n.merged,
                   !.recovery = n.recovery, !.merge_count = n.merge_count]

LEMMA AppliesMerge ==
  ASSUME NEW m \in Accounts, NEW a \in Rows, a.type = "MERGE",
         NEW n, n = Ledger!apply_activity(m, a)
  PROVE  IsMerged(m, a, n)
<1>1. a.size \in Nat /\ a.amount \in Nat
  BY DEF Rows
<1>2. n = Ledger!Merged(m, a)
  BY DEF Ledger!apply_activity
<1>3. m.current \in [Outcomes -> Int] /\ m.merged \in Nat /\ m.recovery \in Nat /\ m.merge_count \in Nat
  BY DEF Accounts
<1>4. PICK c, g, d, e : /\ c = [o \in Outcomes |-> m.current[o] - IF o \in Known(m) THEN a.size ELSE 0]
                        /\ g = m.merged + a.size /\ d = m.recovery + a.amount /\ e = m.merge_count + 1
  OBVIOUS
<1>5. c \in [Outcomes -> Int] /\ g \in Nat /\ d \in Nat /\ e \in Nat
  BY <1>1, <1>3, <1>4
<1>6. PICK p : p = [m EXCEPT !.merged = g, !.recovery = d, !.merge_count = e]
  OBVIOUS
<1>7. p.current = m.current /\ p.known = m.known /\ p \in Accounts
  BY <1>5, <1>6 DEF Accounts
<1>8. Ledger!Outcomes = Outcomes
  BY DEF Ledger!Outcomes, Outcomes
<1>9. n = Ledger!reduce_all_outcomes(p, a.size)
  BY <1>2, <1>4, <1>6 DEF Ledger!Merged, Accounts
<1>10. n = [p EXCEPT !.current = c]
  BY <1>4, <1>7, <1>8, <1>9 DEF Ledger!reduce_all_outcomes, Known, Accounts
<1>11. n = [m EXCEPT !.current = c, !.merged = g, !.recovery = d, !.merge_count = e]
  BY <1>6, <1>10 DEF Accounts
<1>12. n \in Accounts /\ n.current = c /\ n.merged = g /\ n.recovery = d /\ n.merge_count = e
  BY ZenonT(60), <1>5, <1>11 DEF Accounts
<1>13. \A o \in Outcomes : c[o] = IF o \in Known(m) THEN m.current[o] - a.size ELSE m.current[o]
  BY <1>1, <1>3, <1>4
<1> QED  BY <1>4, <1>11, <1>12, <1>13 DEF IsMerged

LEMMA AppliesRebate ==
  ASSUME NEW m \in Accounts, NEW a \in Rows, a.type = "MAKER_REBATE",
         NEW n, n = Ledger!apply_activity(m, a)
  PROVE  n \in Accounts /\ n.rebate = m.rebate + a.amount /\ n = [m EXCEPT !.rebate = n.rebate]
<1>1. PICK e : e = m.rebate + a.amount
  OBVIOUS
<1>2. e \in Nat
  BY <1>1 DEF Accounts, Rows
<1>3. n = [m EXCEPT !.rebate = e]
  BY <1>1 DEF Ledger!apply_activity, Accounts
<1> QED  BY <1>1, <1>2, <1>3 DEF Accounts

\* The outcome read off a redemption is one of those nearest to it.
LEMMA InferParts ==
  ASSUME NEW m \in Accounts, NEW r, r = Ledger!infer_redeem_outcome(m)
  PROVE  /\ \A o \in Outcomes : Ledger!Distance(m, o) \in Nat
         /\ \/ /\ r = "none"
               /\ m.redeemed_shares = 0 \/ m.known = << >> \/ Ledger!has_incomplete_redeem(m)
            \/ /\ m.redeemed_shares # 0 /\ ~Ledger!has_incomplete_redeem(m)
               /\ r \in Known(m) /\ \A o \in Known(m) : Ledger!Distance(m, r) <= Ledger!Distance(m, o)
<1>1. ASSUME NEW o \in Outcomes PROVE Ledger!Distance(m, o) \in Nat
  <2>1. m.buy[o] \in Nat /\ m.merged \in Nat /\ m.redeemed_shares \in Nat
    BY DEF Accounts
  <2>2. Ledger!Kept(m, o) \in Nat
    BY <2>1 DEF Ledger!Kept, Ledger!positive
  <2> QED  BY <2>1, <2>2 DEF Ledger!Distance
<1>2. CASE m.redeemed_shares = 0 \/ m.known = << >> \/ Ledger!has_incomplete_redeem(m)
  <2>1. r = "none"
    BY <1>2 DEF Ledger!infer_redeem_outcome
  <2> QED  BY <1>1, <1>2, <2>1
<1>3. CASE ~(m.redeemed_shares = 0 \/ m.known = << >> \/ Ledger!has_incomplete_redeem(m))
  <2>1. m.known \in Knowns \ {<< >>}
    BY <1>3 DEF Accounts
  <2>2. PICK k : k = m.known
    OBVIOUS
  <2> DEFINE Nearest(o) == \A p \in Known(m) : Ledger!Distance(m, o) <= Ledger!Distance(m, p)
             D == {i \in DOMAIN k : Nearest(k[i])}
  <2>3. Known(m) = {k[i] : i \in DOMAIN k}
    BY <2>2 DEF Known, Ledger!ToSet
  <2>4. DOMAIN k \subseteq {1, 2} /\ 1 \in DOMAIN k /\ \A i \in DOMAIN k : k[i] \in Outcomes
    BY <2>1, <2>2 DEF Knowns, Outcomes
  <2>5. \A i, j \in DOMAIN k : Ledger!Distance(m, k[i]) \in Nat /\ Ledger!Distance(m, k[j]) \in Nat
    BY <1>1, <2>4
  <2>6. D # {}
    <3>1. CASE 2 \notin DOMAIN k
      <4>1. Known(m) = {k[1]}
        BY <2>3, <2>4, <3>1
      <4>2. Nearest(k[1])
        BY <2>4, <2>5, <4>1
      <4> QED  BY <2>4, <4>2
    <3>2. CASE 2 \in DOMAIN k
      <4>1. Known(m) = {k[1], k[2]}
        BY <2>3, <2>4, <3>2
      <4>2. Nearest(k[1]) \/ Nearest(k[2])
        BY <2>4, <2>5, <3>2, <4>1
      <4> QED  BY <2>4, <3>2, <4>2
    <3> QED  BY <3>1, <3>2
  <2>7. D \subseteq {1, 2}
    BY <2>4
  <2>8. r = k[Ledger!Min(D)]
    BY <1>3, <2>2 DEF Ledger!infer_redeem_outcome, Known
  <2>9. Ledger!Min(D) \in D
    <3> HIDE DEF D
    <3>1. \E x \in D : \A y \in D : x <= y
      <4>1. CASE 1 \in D
        BY <2>7, <4>1
      <4>2. CASE 1 \notin D
        <5>1. D = {2}
          BY <2>6, <2>7, <4>2
        <5> QED  BY <5>1
      <4> QED  BY <4>1, <4>2
    <3> QED  BY <3>1 DEF Ledger!Min
  <2>10. PICK i \in D : r = k[i]
    BY <2>8, <2>9
  <2>11. r \in Known(m) /\ Nearest(r)
    BY <2>3, <2>10
  <2> QED  BY <1>1, <1>3, <2>11
<1> QED  BY <1>2, <1>3

\* A redemption takes shares from at most one position, and is compared with the others.
IsRedeemed(m, a, n) ==
  /\ n \in Accounts /\ \A o \in Outcomes : n.current[o] <= m.current[o]
  /\ \A o \in Outcomes : m.current[o] = 0 /\ o \notin Known(m) => n.current[o] = 0
  /\ n.redeemed = m.redeemed + a.amount /\ n.redeemed_shares = m.redeemed_shares + a.amount
  /\ n.recovery = m.recovery + a.amount /\ n.redeem_count = m.redeem_count + 1
  /\ n.incomplete = Ledger!has_incomplete_redeem(n)
  /\ n = [m EXCEPT !.redeemed = n.redeemed, !.redeemed_shares = n.redeemed_shares,
                   !.recovery = n.recovery, !.redeem_count = n.redeem_count,
                   !.incomplete = n.incomplete, !.current = n.current]

LEMMA AppliesRedeem ==
  ASSUME NEW m \in Accounts, NEW a \in Rows, RowOK(a), a.type = "REDEEM",
         NEW n, n = Ledger!apply_activity(m, a)
  PROVE  IsRedeemed(m, a, n)
<1>1. a.size \in {0, a.amount} /\ a.size \in Nat /\ a.amount \in Nat
  BY DEF RowOK, Rows
<1>2. Ledger!redeem_share_size(a.size, a.amount) = a.amount
  BY <1>1 DEF Ledger!redeem_share_size
<1>3. PICK x, y, z, c : /\ x = m.redeemed + a.amount /\ y = m.redeemed_shares + a.amount
                        /\ z = m.recovery + a.amount /\ c = m.redeem_count + 1
  OBVIOUS
<1>4. x \in Nat /\ y \in Nat /\ z \in Nat /\ c \in Nat
  BY <1>1, <1>3 DEF Accounts
<1>5. PICK p : p = [m EXCEPT !.redeemed = x, !.redeemed_shares = y, !.recovery = z, !.redeem_count = c]
  OBVIOUS
<1>6. /\ p \in Accounts /\ p.known = m.known /\ p.current = m.current /\ p.buy = m.buy
      /\ p.merged = m.merged /\ p.redeemed_shares = y
  BY <1>4, <1>5 DEF Accounts
<1>7. PICK o, h, u : /\ o = Ledger!infer_redeem_outcome(p) /\ h = Ledger!has_incomplete_redeem(p)
                     /\ u = [q \in Outcomes |-> m.current[q] - IF q = o THEN a.amount ELSE 0]
  OBVIOUS
<1>8. h \in BOOLEAN
  BY <1>7 DEF Ledger!has_incomplete_redeem
<1>9. m.current \in [Outcomes -> Int]
  BY DEF Accounts
<1>10. u \in [Outcomes -> Int]
  BY <1>1, <1>7, <1>9
<1>11. Ledger!Outcomes = Outcomes
  BY DEF Ledger!Outcomes, Outcomes
<1>12. n = Ledger!Redeemed(m, a)
  BY DEF Ledger!apply_activity
<1>13. n = [p EXCEPT !.incomplete = h, !.current = u]
  <2>1. n = [p EXCEPT !.incomplete = h,
                      !.current = [q \in Outcomes |-> @[q] - IF q = o THEN a.amount ELSE 0]]
    BY <1>2, <1>3, <1>5, <1>7, <1>11, <1>12 DEF Ledger!Redeemed
  <2> QED  BY <1>6, <1>7, <2>1 DEF Accounts
<1>14. n = [m EXCEPT !.redeemed = x, !.redeemed_shares = y, !.recovery = z, !.redeem_count = c,
                     !.incomplete = h, !.current = u]
  BY <1>5, <1>13 DEF Accounts
<1>15. /\ n \in Accounts /\ n.redeemed = x /\ n.redeemed_shares = y /\ n.recovery = z
       /\ n.redeem_count = c /\ n.incomplete = h /\ n.current = u
       /\ n.known = m.known /\ n.buy = m.buy /\ n.merged = m.merged
  BY ZenonT(60), <1>4, <1>8, <1>10, <1>14 DEF Accounts
<1>16. Ledger!has_incomplete_redeem(n) = Ledger!has_incomplete_redeem(p)
  BY <1>6, <1>15 DEF Ledger!has_incomplete_redeem, Ledger!Distance, Ledger!Kept
<1>17. \A q \in Outcomes : u[q] <= m.current[q]
  BY <1>1, <1>7, <1>9
<1>18. o \in Known(m) \cup {"none"}
  BY <1>6, <1>7, InferParts DEF Known
<1>19. \A q \in Outcomes : m.current[q] = 0 /\ q \notin Known(m) => u[q] = 0
  BY <1>7, <1>18 DEF Outcomes
<1> QED  BY <1>3, <1>7, <1>14, <1>15, <1>16, <1>17, <1>19 DEF IsRedeemed

-----------------------------------------------------------------------------
(* The inductive invariant of the ledger *)

Waiting == 1 .. Len(pending)
Waits(type) == \E i \in Waiting : pending[i].type = type

Redeeming  == market.redeem_count > 0 \/ Waits("REDEEM")
BoughtOnly == /\ market.recovery = 0 /\ market.redeem_count = 0
              /\ ~Waits("SELL") /\ ~Waits("MERGE") /\ ~Waits("REDEEM")

LedgerTyped ==
  /\ titled \in BOOLEAN /\ closed \in BOOLEAN /\ tied \in BOOLEAN
  /\ wallet \in [Outcomes -> Nat] /\ cash \in Int /\ winner \in Outcomes \cup {"none"}
  /\ pending \in Seq(Rows) /\ \A i \in Waiting : RowOK(pending[i])
  /\ market \in Accounts /\ sold \subseteq Outcomes
  /\ count \in 0 .. MaxActivities /\ Len(pending) <= count

\* What is not applied yet is the difference between the cash and the profit.
CashAgrees ==
  Sums([i \in Waiting |-> CashOf(pending[i])], Len(pending), cash - Ledger!pnl_with_rebate(market))

\* What can be said of an accumulator whatever was applied to it.
AccountKept ==
  /\ \A o \in Outcomes : o \notin Known(market) => market.buy[o] = 0 /\ market.current[o] = 0
  /\ market.cost = 0 => \A o \in Outcomes : market.current[o] <= 0
  /\ market.redeem_count = 0 => market.redeemed = 0 /\ market.redeemed_shares = 0
  /\ market.redeem_count = 0 /\ market.sell_return = 0 /\ market.merge_count = 0 => market.recovery = 0

\* Rows whose order matters come alone, while nothing is tied.
InTurn == ~tied => Len(pending) <= 1 \/ \A i \in Waiting : ~Ledger!Ordered(pending[i].type)

\* A market is redeemed at most once, when it is resolved.
Resolution ==
  /\ Redeeming => winner # "none" /\ wallet = Ledger!NoShares
  /\ closed => winner # "none"
  /\ \A i \in Waiting : pending[i].type = "SELL" => pending[i].outcome \in sold

\* What is not applied yet is the difference between the wallet and the positions.
SharesAgree ==
  titled /\ ~Redeeming /\ (~tied \/ BoughtOnly) =>
    \A o \in Outcomes :
      Sums([i \in Waiting |-> SharesOf(pending[i], o)], Len(pending), wallet[o] - market.current[o])

\* Positions that were not sold are what was bought less what was merged.
Unsold ==
  titled /\ ~Redeeming =>
    /\ BoughtOnly => market.merged = 0 /\ \A o \in Outcomes : market.current[o] = market.buy[o]
    /\ ~tied => \A o \in Outcomes \ sold : market.current[o] = market.buy[o] - market.merged

\* What is redeemed is what was bought of the winner less what was merged.
RedeemsWinner ==
  titled /\ ~tied /\ Redeeming =>
    /\ \A i \in Waiting : pending[i].type \in {"REDEEM", "MAKER_REBATE"}
    /\ Waits("REDEEM") =>
         /\ market.redeem_count = 0 /\ Len(pending) = 1
         /\ winner \notin sold => \A i \in Waiting : pending[i].amount = market.buy[winner] - market.merged
    /\ ~Waits("REDEEM") =>
         /\ winner \notin sold => market.redeemed = market.buy[winner] - market.merged
         /\ market.redeemed_shares = market.redeemed
         /\ market.incomplete = Ledger!has_incomplete_redeem(market)

LedgerInv ==
  /\ LedgerTyped /\ CashAgrees /\ AccountKept /\ InTurn /\ Resolution /\ SharesAgree /\ Unsold
  /\ RedeemsWinner

-----------------------------------------------------------------------------
(* An activity happens *)

\* The order of the activity and of those that wait does not matter.
AnyOrder(a) == ~Ledger!Ordered(a.type) /\ \A i \in Waiting : ~Ledger!Ordered(pending[i].type)

\* What happens is the last of those that wait.
LEMMA HappensParts ==
  ASSUME LedgerTyped, NEW a \in Rows, RowOK(a), Ledger!Happens(a)
  PROVE  /\ pending' \in Seq(Rows) /\ Len(pending') = Len(pending) + 1 /\ Len(pending) \in Nat
         /\ pending'[Len(pending) + 1] = a /\ \A i \in Waiting : pending'[i] = pending[i]
         /\ Waiting' = Waiting \cup {Len(pending) + 1}
         /\ \A i \in Waiting' : RowOK(pending'[i])
         /\ \A t : Waits(t)' <=> Waits(t) \/ a.type = t
         /\ UNCHANGED <<titled, closed, market>>
         /\ ~tied' => ~tied /\ (Len(pending) = 0 \/ AnyOrder(a))
         /\ tied' \in BOOLEAN /\ count' \in 0 .. MaxActivities /\ Len(pending') <= count'
<1>1. pending \in Seq(Rows) /\ pending' = Append(pending, a) /\ UNCHANGED <<titled, closed, market>>
  BY DEF LedgerTyped, Ledger!Happens
<1>2. /\ pending' \in Seq(Rows) /\ Len(pending') = Len(pending) + 1 /\ Len(pending) \in Nat
      /\ pending'[Len(pending) + 1] = a /\ \A i \in Waiting : pending'[i] = pending[i]
  BY <1>1 DEF Waiting
<1>3. Waiting' = Waiting \cup {Len(pending) + 1}
  BY <1>2 DEF Waiting
<1>4. \A i \in Waiting' : RowOK(pending'[i])
  BY <1>2, <1>3 DEF LedgerTyped
<1>5. ASSUME NEW t PROVE Waits(t)' <=> Waits(t) \/ a.type = t
  BY <1>2, <1>3 DEF Waits
<1>6. tied' = (tied \/ (pending # << >> /\ \E b \in {a} \cup Ledger!ToSet(pending) : Ledger!Ordered(b.type)))
  BY DEF Ledger!Happens
<1>7. Ledger!ToSet(pending) = {pending[i] : i \in Waiting}
  BY <1>1 DEF Ledger!ToSet, Waiting
<1>8. ASSUME ~tied'
      PROVE  ~tied /\ (Len(pending) = 0 \/ AnyOrder(a))
  <2>1. ~tied /\ (pending = << >> \/ \A b \in {a} \cup Ledger!ToSet(pending) : ~Ledger!Ordered(b.type))
    BY <1>6, <1>8 DEF Ledger!Ordered, LedgerTyped
  <2>2. CASE pending = << >>
    BY <2>1, <2>2
  <2>3. CASE \A b \in {a} \cup Ledger!ToSet(pending) : ~Ledger!Ordered(b.type)
    BY <1>7, <2>1, <2>3 DEF AnyOrder
  <2> QED  BY <2>1, <2>2, <2>3
<1>9. tied' \in BOOLEAN
  BY <1>6 DEF LedgerTyped, Ledger!Ordered
<1>10. count' \in 0 .. MaxActivities /\ Len(pending') <= count'
  BY <1>2, ModelConstants DEF Ledger!Happens, LedgerTyped, Ledger!ConstantsOK
<1> QED  BY ZenonT(60), <1>1, <1>2, <1>3, <1>4, <1>5, <1>8, <1>9, <1>10

\* The sums go on with what happens.
LEMMA HappensSums ==
  ASSUME LedgerTyped, NEW a \in Rows, RowOK(a), Ledger!Happens(a), NEW t \in Int
  PROVE  /\ Sums([i \in Waiting |-> CashOf(pending[i])], Len(pending), t) =>
              Sums([i \in Waiting' |-> CashOf(pending'[i])], Len(pending'), t + CashOf(a))
         /\ \A o : Sums([i \in Waiting |-> SharesOf(pending[i], o)], Len(pending), t) =>
              Sums([i \in Waiting' |-> SharesOf(pending'[i], o)], Len(pending'), t + SharesOf(a, o))
<1>1. /\ Len(pending') = Len(pending) + 1 /\ Len(pending) \in Nat
      /\ pending'[Len(pending) + 1] = a /\ \A i \in Waiting : pending'[i] = pending[i]
  BY HappensParts
<1>2. PICK n : n = Len(pending) /\ n \in Nat
  BY <1>1
<1>3. Waiting = 1 .. n /\ Waiting' = 1 .. n + 1
  BY <1>1, <1>2 DEF Waiting
<1>4. CashOf(a) \in Int /\ \A o : SharesOf(a, o) \in Int
  BY DEF CashOf, SharesOf, Rows
<1>5. ASSUME Sums([i \in Waiting |-> CashOf(pending[i])], Len(pending), t)
      PROVE  Sums([i \in Waiting' |-> CashOf(pending'[i])], Len(pending'), t + CashOf(a))
  <2>1. PICK v, w : /\ v = [i \in Waiting |-> CashOf(pending[i])]
                    /\ w = [i \in Waiting' |-> CashOf(pending'[i])]
    OBVIOUS
  <2>2. w[n + 1] = CashOf(a) /\ \A i \in 1 .. n : w[i] = v[i]
    BY <1>1, <1>2, <1>3, <2>1
  <2>3. Sums(v, n, t)
    BY <1>2, <1>5, <2>1
  <2>4. Sums(w, n + 1, t + w[n + 1])
    BY <1>2, <1>4, <2>2, <2>3, SumAdds
  <2> QED  BY <1>1, <1>2, <2>1, <2>2, <2>4
<1>6. ASSUME NEW o, Sums([i \in Waiting |-> SharesOf(pending[i], o)], Len(pending), t)
      PROVE  Sums([i \in Waiting' |-> SharesOf(pending'[i], o)], Len(pending'), t + SharesOf(a, o))
  <2>1. PICK v, w : /\ v = [i \in Waiting |-> SharesOf(pending[i], o)]
                    /\ w = [i \in Waiting' |-> SharesOf(pending'[i], o)]
    OBVIOUS
  <2>2. w[n + 1] = SharesOf(a, o) /\ \A i \in 1 .. n : w[i] = v[i]
    BY <1>1, <1>2, <1>3, <2>1
  <2>3. Sums(v, n, t)
    BY <1>2, <1>6, <2>1
  <2>4. Sums(w, n + 1, t + w[n + 1])
    BY <1>2, <1>4, <2>2, <2>3, SumAdds
  <2> QED  BY <1>1, <1>2, <2>1, <2>2, <2>4
<1> QED  BY <1>5, <1>6

\* One of those that wait is applied.
Applies(k) == /\ k \in Waiting /\ market' = Ledger!apply_activity(market, pending[k])
              /\ pending' = Ledger!RemoveAt(pending, k)
              /\ UNCHANGED <<titled, wallet, cash, winner, closed, count, tied, sold>>

LEMMA AppliesParts ==
  ASSUME LedgerTyped, NEW k \in Waiting, Applies(k)
  PROVE  /\ pending' \in Seq(Rows) /\ Len(pending') = Len(pending) - 1 /\ Len(pending) \in Nat \ {0}
         /\ Waiting = 1 .. Len(pending) /\ Waiting' = 1 .. Len(pending) - 1
         /\ \A i \in Waiting' : pending'[i] = IF i < k THEN pending[i] ELSE pending[i + 1]
         /\ \A i \in Waiting' : \E j \in Waiting \ {k} : pending'[i] = pending[j]
         /\ \A j \in Waiting \ {k} : \E i \in Waiting' : pending'[i] = pending[j]
         /\ pending[k] \in Rows /\ RowOK(pending[k])
<1>1. PICK n : n = Len(pending) /\ n \in Nat /\ pending \in Seq(Rows)
  BY DEF LedgerTyped
<1>2. Waiting = 1 .. n /\ k \in 1 .. n
  BY <1>1 DEF Waiting
<1>3. PICK s, t : s = SubSeq(pending, 1, k - 1) /\ t = SubSeq(pending, k + 1, n)
  OBVIOUS
<1>4. /\ s \in Seq(Rows) /\ Len(s) = k - 1 /\ \A i \in 1 .. k - 1 : s[i] = pending[i]
      /\ t \in Seq(Rows) /\ Len(t) = n - k /\ \A i \in 1 .. n - k : t[i] = pending[k + i]
  BY <1>1, <1>2, <1>3
<1>5. pending' = s \o t
  BY <1>1, <1>3 DEF Applies, Ledger!RemoveAt
<1>6. /\ pending' \in Seq(Rows) /\ Len(pending') = n - 1
      /\ \A i \in 1 .. n - 1 : pending'[i] = IF i < k THEN pending[i] ELSE pending[i + 1]
  <2>1. pending' \in Seq(Rows) /\ Len(pending') = n - 1
    BY <1>1, <1>2, <1>4, <1>5
  <2>2. ASSUME NEW i \in 1 .. n - 1 PROVE pending'[i] = IF i < k THEN pending[i] ELSE pending[i + 1]
    <3>1. CASE i < k
      BY <1>2, <1>4, <1>5, <3>1
    <3>2. CASE ~(i < k)
      <4>1. PICK j : j = i - (k - 1)
        OBVIOUS
      <4>2. j \in 1 .. n - k /\ k + j = i + 1
        BY <1>1, <1>2, <3>2, <4>1
      <4>3. i \in 1 .. Len(s) + Len(t) /\ ~(i <= Len(s)) /\ i - Len(s) = j
        BY <1>1, <1>2, <1>4, <3>2, <4>1
      <4>4. s \in Seq(Rows) /\ t \in Seq(Rows)
        BY <1>4
      <4>5. (s \o t)[i] = t[i - Len(s)]
        BY ONLY <4>3, <4>4
      <4>6. pending'[i] = t[j]
        BY ONLY <1>5, <4>3, <4>5
      <4> QED  BY <1>4, <3>2, <4>2, <4>6
    <3> QED  BY <3>1, <3>2
  <2> QED  BY <2>1, <2>2
<1>7. Waiting' = 1 .. n - 1
  BY <1>6 DEF Waiting
<1>8. ASSUME NEW i \in Waiting' PROVE \E j \in Waiting \ {k} : pending'[i] = pending[j]
  <2>1. CASE i < k
    BY <1>1, <1>2, <1>6, <1>7, <2>1
  <2>2. CASE ~(i < k)
    <3>1. i + 1 \in Waiting \ {k}
      BY <1>1, <1>2, <1>7, <2>2
    <3> QED  BY <1>6, <1>7, <2>2, <3>1
  <2> QED  BY <2>1, <2>2
<1>9. ASSUME NEW j \in Waiting \ {k} PROVE \E i \in Waiting' : pending'[i] = pending[j]
  <2>1. CASE j < k
    <3>1. j \in Waiting'
      BY <1>1, <1>2, <1>7, <2>1
    <3> QED  BY <1>6, <1>7, <2>1, <3>1
  <2>2. CASE ~(j < k)
    <3>1. PICK i : i = j - 1
      OBVIOUS
    <3>2. i \in Waiting' /\ i + 1 = j /\ ~(i < k)
      BY <1>1, <1>2, <1>7, <2>2, <3>1
    <3>3. pending'[i] = pending[i + 1]
      BY <1>6, <1>7, <3>2
    <3> QED  BY <3>2, <3>3
  <2> QED  BY <2>1, <2>2
<1>10. pending[k] \in Rows /\ RowOK(pending[k])
  BY <1>1, <1>2 DEF LedgerTyped
<1> QED  BY <1>1, <1>2, <1>6, <1>7, <1>8, <1>9, <1>10

LEMMA AppliesSums ==
  ASSUME LedgerTyped, NEW k \in Waiting, Applies(k), NEW t \in Int
  PROVE  /\ Sums([i \in Waiting |-> CashOf(pending[i])], Len(pending), t) =>
              Sums([i \in Waiting' |-> CashOf(pending'[i])], Len(pending'), t - CashOf(pending[k]))
         /\ \A o : Sums([i \in Waiting |-> SharesOf(pending[i], o)], Len(pending), t) =>
              Sums([i \in Waiting' |-> SharesOf(pending'[i], o)], Len(pending'), t - SharesOf(pending[k], o))
<1>1. /\ Len(pending') = Len(pending) - 1 /\ Len(pending) \in Nat \ {0}
      /\ Waiting = 1 .. Len(pending) /\ Waiting' = 1 .. Len(pending) - 1
      /\ \A i \in Waiting' : pending'[i] = IF i < k THEN pending[i] ELSE pending[i + 1]
  BY AppliesParts
<1>2. PICK n : n = Len(pending) /\ n \in Nat \ {0}
  BY <1>1
<1>3. \A i \in Waiting : CashOf(pending[i]) \in Int /\ \A o : SharesOf(pending[i], o) \in Int
  <2> TAKE i \in Waiting
  <2>1. pending[i] \in Rows
    BY DEF LedgerTyped, Waiting
  <2> QED  BY <2>1 DEF CashOf, SharesOf, Rows
<1>4. ASSUME Sums([i \in Waiting |-> CashOf(pending[i])], Len(pending), t)
      PROVE  Sums([i \in Waiting' |-> CashOf(pending'[i])], Len(pending'), t - CashOf(pending[k]))
  <2>1. PICK v, w : /\ v = [i \in Waiting |-> CashOf(pending[i])]
                    /\ w = [i \in Waiting' |-> CashOf(pending'[i])]
    OBVIOUS
  <2>2. v[k] = CashOf(pending[k]) /\ \A i \in 1 .. n : v[i] \in Int
    BY <1>1, <1>2, <1>3, <2>1
  <2>3. ASSUME NEW i \in 1 .. n - 1 PROVE w[i] = IF i < k THEN v[i] ELSE v[i + 1]
    <3>1. i \in Waiting' /\ i \in Waiting /\ i + 1 \in Waiting
      BY <1>1, <1>2
    <3>2. w[i] = CashOf(pending'[i]) /\ v[i] = CashOf(pending[i]) /\ v[i + 1] = CashOf(pending[i + 1])
      BY <2>1, <3>1
    <3> QED  BY <1>1, <3>1, <3>2
  <2>4. Sums(v, n, t)
    BY <1>2, <1>4, <2>1
  <2>5. Sums(w, n - 1, t - v[k])
    BY <1>1, <1>2, <2>2, <2>3, <2>4, SumDrops
  <2> QED  BY <1>1, <1>2, <2>1, <2>2, <2>5
<1>5. ASSUME NEW o, Sums([i \in Waiting |-> SharesOf(pending[i], o)], Len(pending), t)
      PROVE  Sums([i \in Waiting' |-> SharesOf(pending'[i], o)], Len(pending'), t - SharesOf(pending[k], o))
  <2>1. PICK v, w : /\ v = [i \in Waiting |-> SharesOf(pending[i], o)]
                    /\ w = [i \in Waiting' |-> SharesOf(pending'[i], o)]
    OBVIOUS
  <2>2. v[k] = SharesOf(pending[k], o) /\ \A i \in 1 .. n : v[i] \in Int
    BY <1>1, <1>2, <1>3, <2>1
  <2>3. ASSUME NEW i \in 1 .. n - 1 PROVE w[i] = IF i < k THEN v[i] ELSE v[i + 1]
    <3>1. i \in Waiting' /\ i \in Waiting /\ i + 1 \in Waiting
      BY <1>1, <1>2
    <3>2. /\ w[i] = SharesOf(pending'[i], o) /\ v[i] = SharesOf(pending[i], o)
          /\ v[i + 1] = SharesOf(pending[i + 1], o)
      BY <2>1, <3>1
    <3> QED  BY <1>1, <3>1, <3>2
  <2>4. Sums(v, n, t)
    BY <1>2, <1>5, <2>1
  <2>5. Sums(w, n - 1, t - v[k])
    BY <1>1, <1>2, <2>2, <2>3, <2>4, SumDrops
  <2> QED  BY <1>1, <1>2, <2>1, <2>2, <2>5
<1> QED  BY <1>4, <1>5
\* An activity that changes the wallet and the cash as its row will say keeps the invariant.
LEMMA HappensKeeps ==
  ASSUME LedgerInv, NEW a \in Rows, RowOK(a), Ledger!Happens(a),
         wallet' \in [Outcomes -> Nat], cash' = cash + CashOf(a), winner' = winner,
         sold \subseteq sold', sold' \subseteq Outcomes, a.type = "SELL" => a.outcome \in sold',
         a.type \notin {"REDEEM", "MAKER_REBATE"} => winner = "none",
         a.type # "REDEEM" => \A o \in Outcomes : wallet'[o] = wallet[o] + SharesOf(a, o),
         a.type = "REDEEM" => /\ winner # "none" /\ wallet # Ledger!NoShares
                              /\ wallet' = Ledger!NoShares /\ a.amount = wallet[winner]
  PROVE  LedgerInv'
<1>0. /\ LedgerTyped /\ CashAgrees /\ AccountKept /\ InTurn /\ Resolution /\ SharesAgree /\ Unsold
      /\ RedeemsWinner /\ market \in Accounts
  BY DEF LedgerInv, LedgerTyped
<1>1. /\ pending' \in Seq(Rows) /\ Len(pending') = Len(pending) + 1 /\ Len(pending) \in Nat
      /\ pending'[Len(pending) + 1] = a /\ \A i \in Waiting : pending'[i] = pending[i]
      /\ Waiting' = Waiting \cup {Len(pending) + 1}
      /\ \A i \in Waiting' : RowOK(pending'[i])
      /\ \A t : Waits(t)' <=> Waits(t) \/ a.type = t
      /\ titled' = titled /\ closed' = closed /\ market' = market
      /\ ~tied' => ~tied /\ (Len(pending) = 0 \/ AnyOrder(a))
      /\ tied' \in BOOLEAN /\ count' \in 0 .. MaxActivities /\ Len(pending') <= count'
  BY <1>0, HappensParts
<1>2. LedgerTyped'
  <2>1. cash' \in Int
    BY <1>0 DEF LedgerTyped, CashOf, Rows
  <2> QED  BY <1>0, <1>1, <2>1 DEF LedgerTyped
<1>3. CashAgrees'
  <2>1. PICK p : p = Ledger!pnl_with_rebate(market) /\ p = Ledger!pnl_with_rebate(market')
    BY <1>1
  <2>2. p \in Int
    BY <1>0, <2>1 DEF Ledger!pnl_with_rebate, Ledger!pnl, Accounts
  <2>3. PICK t, u : t = cash - p /\ u = CashOf(a)
    OBVIOUS
  <2>4. t \in Int /\ cash' - p = t + u
    <3>1. u \in Int /\ cash \in Int
      BY <1>0, <2>3 DEF LedgerTyped, CashOf, Rows
    <3>2. cash' = cash + u
      BY <2>3
    <3> QED  BY <2>2, <2>3, <3>1, <3>2
  <2>5. Sums([i \in Waiting' |-> CashOf(pending'[i])], Len(pending'), t + u)
    BY <1>0, <2>1, <2>3, <2>4, HappensSums DEF CashAgrees
  <2> QED  BY <2>1, <2>4, <2>5 DEF CashAgrees
<1>4. AccountKept'
  BY <1>0, <1>1 DEF AccountKept, Known
<1>5. InTurn'
  <2>1. CASE tied'
    BY <2>1 DEF InTurn
  <2>2. CASE Len(pending) = 0
    <3>1. Len(pending') <= 1
      BY <1>1, <2>2
    <3> QED  BY <3>1 DEF InTurn
  <2>3. CASE AnyOrder(a)
    BY <1>1, <2>3 DEF InTurn, AnyOrder, Ledger!Ordered
  <2> QED  BY <1>1, <2>1, <2>2, <2>3
<1>6. Redeeming => a.type = "MAKER_REBATE"
  BY <1>0 DEF Resolution
<1>7. Redeeming' <=> Redeeming \/ a.type = "REDEEM"
  BY <1>1 DEF Redeeming
<1>8. Resolution'
  <2>1. Redeeming' => winner' # "none" /\ wallet' = Ledger!NoShares
    <3>1. CASE Redeeming
      <4>1. a.type = "MAKER_REBATE" /\ wallet = Ledger!NoShares /\ winner # "none"
        BY <1>0, <1>6, <3>1 DEF Resolution
      <4>2. \A o \in Outcomes : wallet'[o] = wallet[o]
        BY <1>0, <4>1 DEF SharesOf, LedgerTyped
      <4>3. wallet \in [Outcomes -> Nat]
        BY <1>0 DEF LedgerTyped
      <4>4. wallet' = wallet
        BY <4>2, <4>3
      <4> QED  BY <4>1, <4>4
    <3>2. CASE a.type = "REDEEM"
      BY <3>2
    <3> QED  BY <1>7, <3>1, <3>2
  <2>2. closed' => winner' # "none"
    BY <1>0, <1>1 DEF Resolution
  <2>3. \A i \in Waiting' : pending'[i].type = "SELL" => pending'[i].outcome \in sold'
    BY <1>0, <1>1 DEF Resolution
  <2> QED  BY <2>1, <2>2, <2>3 DEF Resolution, Ledger!NoShares
<1>9. BoughtOnly' => BoughtOnly
  BY <1>1 DEF BoughtOnly
<1>10. SharesAgree'
  <2> SUFFICES ASSUME titled', ~Redeeming', ~tied' \/ BoughtOnly', NEW o \in Outcomes
               PROVE  Sums([i \in Waiting' |-> SharesOf(pending'[i], o)], Len(pending'),
                           wallet'[o] - market'.current[o])
    BY DEF SharesAgree
  <2>1. PICK t, u : t = wallet[o] - market.current[o] /\ u = SharesOf(a, o)
    OBVIOUS
  <2>2. Sums([i \in Waiting |-> SharesOf(pending[i], o)], Len(pending), t)
    BY <1>0, <1>1, <1>7, <1>9, <2>1 DEF SharesAgree
  <2>3. wallet[o] \in Nat /\ market.current[o] \in Int /\ u \in Int
    BY <1>0, <2>1 DEF LedgerTyped, Accounts, SharesOf, Rows
  <2>4. t \in Int /\ wallet'[o] - market'.current[o] = t + u
    BY SMTT(40), <1>1, <1>7, <2>1, <2>3
  <2>5. Sums([i \in Waiting' |-> SharesOf(pending'[i], o)], Len(pending'), t + u)
    BY <1>0, <2>1, <2>2, <2>4, HappensSums
  <2> QED  BY <2>4, <2>5
<1>11. Unsold'
  BY <1>0, <1>1, <1>7, <1>9 DEF Unsold
<1>12. RedeemsWinner'
  <2> SUFFICES ASSUME titled', ~tied', Redeeming' PROVE RedeemsWinner'
    BY DEF RedeemsWinner
  <2>1. titled /\ ~tied /\ (Len(pending) = 0 \/ AnyOrder(a))
    BY <1>1
  <2>2. CASE Redeeming
    <3>1. a.type = "MAKER_REBATE"
      BY <1>6, <2>2
    <3>2. ~Waits("REDEEM")
      <4>1. ASSUME NEW i \in Waiting, pending[i].type = "REDEEM" PROVE FALSE
        <5>1. Ledger!Ordered(pending[i].type) /\ Len(pending) # 0
          BY <1>1, <4>1 DEF Ledger!Ordered, Waiting
        <5> QED  BY <2>1, <4>1, <5>1 DEF AnyOrder
      <4> QED  BY <4>1 DEF Waits
    <3>3. ~Waits("REDEEM")'
      BY <1>1, <3>1, <3>2
    <3>4. \A i \in Waiting' : pending'[i].type \in {"REDEEM", "MAKER_REBATE"}
      BY <1>0, <1>1, <2>1, <2>2, <3>1 DEF RedeemsWinner
    <3>5. Ledger!has_incomplete_redeem(market') = Ledger!has_incomplete_redeem(market)
      BY <1>1
    <3> QED  BY <1>0, <1>1, <2>1, <2>2, <3>2, <3>3, <3>4, <3>5 DEF RedeemsWinner
  <2>3. CASE ~Redeeming
    <3>1. a.type = "REDEEM"
      BY <1>7, <2>3
    <3>2. Len(pending) = 0
      BY <2>1, <3>1 DEF AnyOrder, Ledger!Ordered
    <3>3. Waiting' = {1} /\ Len(pending') = 1 /\ pending'[1] = a /\ Waiting = {}
      BY <1>1, <3>2 DEF Waiting
    <3>4. market.redeem_count = 0
      BY <1>0, <2>3 DEF Redeeming, Accounts
    <3>5. ASSUME winner \notin sold' PROVE a.amount = market.buy[winner] - market.merged
      <4>1. PICK w : w = winner
        OBVIOUS
      <4>2. w \in Outcomes \ sold
        BY <1>0, <3>1, <3>5, <4>1 DEF LedgerTyped
      <4>3. market.current[w] = market.buy[w] - market.merged
        BY <1>0, <2>1, <2>3, <4>2 DEF Unsold
      <4>4. PICK v, t : v = [i \in Waiting |-> SharesOf(pending[i], w)] /\ t = wallet[w] - market.current[w]
        OBVIOUS
      <4>5. Sums(v, 0, t)
        BY <1>0, <2>1, <2>3, <3>2, <4>2, <4>4 DEF SharesAgree
      <4>6. t = 0
        BY <4>5, SumNone
      <4>7. wallet[w] \in Nat /\ market.current[w] \in Int
        BY <1>0, <4>2 DEF LedgerTyped, Accounts
      <4>8. wallet[w] = market.current[w]
        BY <4>4, <4>6, <4>7
      <4> QED  BY <3>1, <4>1, <4>3, <4>8
    <3>6. Waits("REDEEM")'
      BY <1>1, <3>1
    <3> QED  BY <1>1, <3>1, <3>3, <3>4, <3>5, <3>6 DEF RedeemsWinner
  <2> QED  BY <2>2, <2>3
<1> QED  BY <1>2, <1>3, <1>4, <1>5, <1>8, <1>10, <1>11, <1>12 DEF LedgerInv
-----------------------------------------------------------------------------
(* A row is applied *)

\* What the rows other than a redemption do, in one place.
LEMMA AppliesEffects ==
  ASSUME LedgerInv, NEW k \in Waiting, Applies(k), NEW a, a = pending[k], a.type # "REDEEM"
  PROVE  /\ market' \in Accounts /\ AccountKept'
         /\ Ledger!pnl_with_rebate(market') = Ledger!pnl_with_rebate(market) + CashOf(a)
         /\ market'.redeem_count = market.redeem_count /\ market'.redeemed = market.redeemed
         /\ market'.redeemed_shares = market.redeemed_shares
         /\ market'.incomplete = market.incomplete
         /\ a.type \in {"SELL", "MERGE"} => market'.recovery > 0
         /\ a.type \notin {"SELL", "MERGE"} => market'.recovery = market.recovery
         /\ titled /\ a.type # "MERGE" =>
              \A o \in Outcomes : market'.current[o] = market.current[o] + SharesOf(a, o)
         /\ a.type = "MERGE" =>
              \A o \in Known(market) : market'.current[o] = market.current[o] + SharesOf(a, o)
         /\ titled /\ a.type \in {"BUY", "SPLIT"} =>
              \A o \in Outcomes : market'.buy[o] = market.buy[o] + SharesOf(a, o)
         /\ a.type \in {"SELL", "MERGE", "MAKER_REBATE"} => market'.buy = market.buy
         /\ a.type # "MERGE" => market'.merged = market.merged
         /\ a.type = "MERGE" => market'.merged = market.merged + a.size
         /\ a.type = "MAKER_REBATE" => market' = [market EXCEPT !.rebate = market'.rebate]
<1>0. /\ LedgerTyped /\ AccountKept /\ market \in Accounts
  BY DEF LedgerInv, LedgerTyped
<1>1. a \in Rows /\ RowOK(a)
  BY <1>0, AppliesParts
<1>2. PICK m, n : m = market /\ n = market' /\ m \in Accounts
  BY <1>0
<1>3. n = Ledger!apply_activity(m, a)
  BY <1>2 DEF Applies
<1>4. /\ m.buy \in [Outcomes -> Nat] /\ m.current \in [Outcomes -> Int] /\ m.cost \in Nat /\ m.recovery \in Nat
      /\ m.rebate \in Nat /\ m.merged \in Nat /\ m.redeem_count \in Nat /\ m.merge_count \in Nat
      /\ m.sell_return \in Nat /\ a.size \in Nat /\ a.amount \in Nat
  BY <1>1, <1>2 DEF Accounts, Rows
<1>5. Known(m) \subseteq Outcomes
  BY <1>2, KnownParts DEF Accounts, Knowns, Known, Outcomes
<1>6. /\ \A o \in Outcomes : o \notin Known(m) => m.buy[o] = 0 /\ m.current[o] = 0
      /\ m.cost = 0 => \A o \in Outcomes : m.current[o] <= 0
      /\ m.redeem_count = 0 => m.redeemed = 0 /\ m.redeemed_shares = 0
      /\ m.redeem_count = 0 /\ m.sell_return = 0 /\ m.merge_count = 0 => m.recovery = 0
  BY <1>0, <1>2 DEF AccountKept, Known
<1>7. \/ a.type = "BUY" \/ a.type = "SELL" \/ a.type = "SPLIT" \/ a.type = "MERGE" \/ a.type = "MAKER_REBATE"
  BY <1>1 DEF Rows, Types
<1>8. AccountKept' <=>
        /\ \A o \in Outcomes : o \notin Known(n) => n.buy[o] = 0 /\ n.current[o] = 0
        /\ n.cost = 0 => \A o \in Outcomes : n.current[o] <= 0
        /\ n.redeem_count = 0 => n.redeemed = 0 /\ n.redeemed_shares = 0
        /\ n.redeem_count = 0 /\ n.sell_return = 0 /\ n.merge_count = 0 => n.recovery = 0
  BY <1>2 DEF AccountKept, Known
<1>9. a.amount > 0
  BY SMTT(40), <1>1 DEF RowOK
<1>10. CASE a.type = "BUY"
  <2>0. IsBought(m, a, n)
    BY <1>1, <1>2, <1>3, <1>10, AppliesBuy
  <2>1. /\ n \in Accounts /\ Known(n) = Known(m) \cup {a.outcome}
        /\ n.buy = [m.buy EXCEPT ![a.outcome] = @ + a.size]
        /\ n.current = [m.current EXCEPT ![a.outcome] = @ + a.size]
        /\ n.cost = m.cost + a.amount
        /\ n = [m EXCEPT !.known = n.known, !.buy = n.buy, !.current = n.current, !.cost = n.cost]
    BY <2>0 DEF IsBought
  <2>2. /\ n.recovery = m.recovery /\ n.rebate = m.rebate /\ n.merged = m.merged /\ n.redeemed = m.redeemed
        /\ n.redeem_count = m.redeem_count /\ n.redeemed_shares = m.redeemed_shares
        /\ n.incomplete = m.incomplete /\ n.merge_count = m.merge_count /\ n.sell_return = m.sell_return
    BY ZenonT(60), <1>2, <2>1 DEF Accounts
  <2>3. \A o \in Outcomes : /\ n.buy[o] = m.buy[o] + SharesOf(a, o)
                            /\ n.current[o] = m.current[o] + SharesOf(a, o)
                            /\ o # a.outcome => n.buy[o] = m.buy[o] /\ n.current[o] = m.current[o]
    BY <1>4, <1>10, <2>1 DEF SharesOf
  <2>4. AccountKept'
    BY <1>4, <1>6, <1>8, <1>9, <2>1, <2>2, <2>3
  <2>5. CashOf(a) = -a.amount
    BY <1>10 DEF CashOf
  <2>6. Ledger!pnl_with_rebate(n) = Ledger!pnl_with_rebate(m) + CashOf(a)
    BY <1>4, <2>1, <2>2, <2>5 DEF Ledger!pnl_with_rebate, Ledger!pnl
  <2> QED  BY <1>2, <1>10, <2>1, <2>2, <2>3, <2>4, <2>6
<1>11. CASE a.type = "SELL"
  <2>0. IsSold(m, a, n)
    BY <1>1, <1>2, <1>3, <1>11, AppliesSell
  <2>1. /\ n \in Accounts /\ Known(n) = Known(m) \cup {a.outcome}
        /\ n.current = [m.current EXCEPT ![a.outcome] = @ - a.size]
        /\ n.sell_return = m.sell_return + a.amount /\ n.recovery = m.recovery + a.amount
        /\ n = [m EXCEPT !.known = n.known, !.current = n.current,
                         !.sell_return = n.sell_return, !.recovery = n.recovery]
    BY <2>0 DEF IsSold
  <2>2. /\ n.cost = m.cost /\ n.rebate = m.rebate /\ n.merged = m.merged /\ n.redeemed = m.redeemed
        /\ n.redeem_count = m.redeem_count /\ n.redeemed_shares = m.redeemed_shares
        /\ n.incomplete = m.incomplete /\ n.merge_count = m.merge_count /\ n.buy = m.buy
    BY ZenonT(60), <1>2, <2>1 DEF Accounts
  <2>3. \A o \in Outcomes : /\ n.current[o] = m.current[o] + SharesOf(a, o)
                            /\ o # a.outcome => n.current[o] = m.current[o]
                            /\ n.current[o] <= m.current[o]
    BY <1>4, <1>11, <2>1 DEF SharesOf
  <2>4. AccountKept'
    <3>1. n.sell_return # 0
      BY <1>4, <1>9, <2>1
    <3>2. n.cost = 0 => \A o \in Outcomes : n.current[o] <= 0
      BY <1>4, <1>6, <2>1, <2>2, <2>3 DEF Accounts
    <3> QED  BY <1>6, <1>8, <2>1, <2>2, <2>3, <3>1, <3>2
  <2>5. CashOf(a) = a.amount
    BY <1>11 DEF CashOf
  <2>6. Ledger!pnl_with_rebate(n) = Ledger!pnl_with_rebate(m) + CashOf(a)
    BY <1>4, <2>1, <2>2, <2>5 DEF Ledger!pnl_with_rebate, Ledger!pnl
  <2>7. n.recovery > 0
    BY <1>4, <1>9, <2>1
  <2> QED  BY <1>2, <1>11, <2>1, <2>2, <2>3, <2>4, <2>6, <2>7
<1>12. CASE a.type = "SPLIT"
  <2>0. IsSplit(m, a, n)
    BY <1>1, <1>2, <1>3, <1>12, AppliesSplit
  <2>1. /\ n \in Accounts /\ n.cost = m.cost + a.amount
        /\ n = [m EXCEPT !.known = n.known, !.buy = n.buy, !.current = n.current, !.cost = n.cost]
        /\ \/ ~titled /\ n.known = m.known /\ n.buy = m.buy /\ n.current = m.current
           \/ /\ Known(n) = Outcomes
              /\ n.buy = [o \in Outcomes |-> m.buy[o] + a.size]
              /\ n.current = [o \in Outcomes |-> m.current[o] + a.size]
    BY <2>0 DEF IsSplit
  <2>2. /\ n.recovery = m.recovery /\ n.rebate = m.rebate /\ n.merged = m.merged /\ n.redeemed = m.redeemed
        /\ n.redeem_count = m.redeem_count /\ n.redeemed_shares = m.redeemed_shares
        /\ n.incomplete = m.incomplete /\ n.merge_count = m.merge_count /\ n.sell_return = m.sell_return
    BY <1>2, <2>1 DEF Accounts
  <2>3. titled => \A o \in Outcomes : /\ n.buy[o] = m.buy[o] + SharesOf(a, o)
                                      /\ n.current[o] = m.current[o] + SharesOf(a, o)
    BY <1>12, <2>1 DEF SharesOf
  <2>4. AccountKept'
    <3>1. n.cost # 0
      BY <1>4, <1>9, <2>1
    <3>2. \A o \in Outcomes : o \notin Known(n) => n.buy[o] = 0 /\ n.current[o] = 0
      BY <1>6, <2>1 DEF Known
    <3> QED  BY <1>6, <1>8, <2>2, <3>1, <3>2
  <2>5. CashOf(a) = -a.amount
    BY <1>12 DEF CashOf
  <2>6. Ledger!pnl_with_rebate(n) = Ledger!pnl_with_rebate(m) + CashOf(a)
    BY <1>4, <2>1, <2>2, <2>5 DEF Ledger!pnl_with_rebate, Ledger!pnl
  <2> QED  BY <1>2, <1>12, <2>1, <2>2, <2>3, <2>4, <2>6
<1>13. CASE a.type = "MERGE"
  <2>0. IsMerged(m, a, n)
    BY <1>1, <1>2, <1>3, <1>13, AppliesMerge
  <2>1. /\ n \in Accounts
        /\ \A o \in Outcomes :
             n.current[o] = IF o \in Known(m) THEN m.current[o] - a.size ELSE m.current[o]
        /\ n.merged = m.merged + a.size /\ n.recovery = m.recovery + a.amount
        /\ n.merge_count = m.merge_count + 1
        /\ n = [m EXCEPT !.current = n.current, !.merged = n.merged,
                         !.recovery = n.recovery, !.merge_count = n.merge_count]
    BY <2>0 DEF IsMerged
  <2>2. /\ n.cost = m.cost /\ n.rebate = m.rebate /\ n.sell_return = m.sell_return /\ n.redeemed = m.redeemed
        /\ n.redeem_count = m.redeem_count /\ n.redeemed_shares = m.redeemed_shares
        /\ n.incomplete = m.incomplete /\ n.known = m.known /\ n.buy = m.buy
    BY ZenonT(60), <1>2, <2>1 DEF Accounts
  <2>3. \A o \in Known(m) : n.current[o] = m.current[o] + SharesOf(a, o)
    BY <1>4, <1>5, <1>13, <2>1 DEF SharesOf
  <2>4. AccountKept'
    <3>1. n.merge_count # 0
      BY <1>4, <2>1
    <3>2. \A o \in Outcomes : n.current[o] <= m.current[o]
      BY <1>4, <2>1
    <3>3. n.cost = 0 => \A o \in Outcomes : n.current[o] <= 0
      <4>1. \A o \in Outcomes : n.current[o] \in Int /\ m.current[o] \in Int
        BY <1>4, <2>1 DEF Accounts
      <4> QED  BY <1>6, <2>2, <3>2, <4>1
    <3>4. \A o \in Outcomes : o \notin Known(n) => n.buy[o] = 0 /\ n.current[o] = 0
      BY <1>6, <2>1, <2>2 DEF Known
    <3> QED  BY <1>6, <1>8, <2>2, <3>1, <3>3, <3>4
  <2>5. CashOf(a) = a.amount
    BY <1>13 DEF CashOf
  <2>6. Ledger!pnl_with_rebate(n) = Ledger!pnl_with_rebate(m) + CashOf(a)
    BY <1>4, <2>1, <2>2, <2>5 DEF Ledger!pnl_with_rebate, Ledger!pnl
  <2>7. n.recovery > 0
    BY <1>4, <1>9, <2>1
  <2> QED  BY <1>2, <1>13, <2>1, <2>2, <2>3, <2>4, <2>6, <2>7
<1>14. CASE a.type = "MAKER_REBATE"
  <2>1. n \in Accounts /\ n.rebate = m.rebate + a.amount /\ n = [m EXCEPT !.rebate = n.rebate]
    BY <1>1, <1>2, <1>3, <1>14, AppliesRebate
  <2>2. /\ n.recovery = m.recovery /\ n.cost = m.cost /\ n.merged = m.merged /\ n.redeemed = m.redeemed
        /\ n.redeem_count = m.redeem_count /\ n.redeemed_shares = m.redeemed_shares
        /\ n.incomplete = m.incomplete /\ n.merge_count = m.merge_count /\ n.sell_return = m.sell_return
        /\ n.known = m.known /\ n.buy = m.buy /\ n.current = m.current
    BY <1>2, <2>1 DEF Accounts
  <2>3. \A o \in Outcomes : n.current[o] = m.current[o] + SharesOf(a, o)
    BY <1>4, <1>14, <2>2 DEF SharesOf
  <2>4. AccountKept'
    BY <1>6, <1>8, <2>2 DEF Known
  <2>5. CashOf(a) = a.amount
    BY <1>14 DEF CashOf
  <2>6. Ledger!pnl_with_rebate(n) = Ledger!pnl_with_rebate(m) + CashOf(a)
    BY <1>4, <2>1, <2>2, <2>5 DEF Ledger!pnl_with_rebate, Ledger!pnl
  <2> QED  BY <1>2, <1>14, <2>1, <2>2, <2>3, <2>4, <2>6
<1> QED  BY <1>7, <1>10, <1>11, <1>12, <1>13, <1>14

\* Which types wait, after one row has been applied.
LEMMA AppliesWaits ==
  ASSUME LedgerTyped, NEW k \in Waiting, Applies(k)
  PROVE  /\ Waits(pending[k].type)
         /\ \A t : Waits(t)' => Waits(t)
         /\ \A t : Waits(t) /\ pending[k].type # t => Waits(t)'
         /\ Len(pending) = 1 => Waiting' = {} /\ Waiting = {k} /\ \A t : ~Waits(t)'
<1>1. /\ \A i \in Waiting' : \E j \in Waiting \ {k} : pending'[i] = pending[j]
      /\ \A j \in Waiting \ {k} : \E i \in Waiting' : pending'[i] = pending[j]
      /\ Waiting = 1 .. Len(pending) /\ Waiting' = 1 .. Len(pending) - 1
  BY AppliesParts
<1>2. Waits(pending[k].type)
  BY DEF Waits
<1>3. ASSUME NEW t, Waits(t)' PROVE Waits(t)
  BY <1>1, <1>3 DEF Waits
<1>4. ASSUME NEW t, Waits(t), pending[k].type # t PROVE Waits(t)'
  BY ZenonT(60), <1>1, <1>4 DEF Waits
<1>5. ASSUME Len(pending) = 1 PROVE Waiting' = {} /\ Waiting = {k} /\ \A t : ~Waits(t)'
  <2>1. Waiting' = {} /\ Waiting = {k}
    BY <1>1, <1>5
  <2> QED  BY <2>1 DEF Waits
<1> QED  BY <1>2, <1>3, <1>4, <1>5

\* While nothing is tied, a merge finds both positions.
LEMMA MergeIsKnown ==
  ASSUME LedgerInv, NEW k \in Waiting, pending[k].type = "MERGE", titled, ~tied, ~Redeeming,
         NEW o \in Outcomes
  PROVE  o \in Known(market)
<1>0. LedgerTyped /\ AccountKept /\ InTurn /\ SharesAgree /\ market \in Accounts
  BY DEF LedgerInv, LedgerTyped
<1>1. pending \in Seq(Rows) /\ Len(pending) \in Nat /\ Waiting = 1 .. Len(pending)
  BY <1>0 DEF LedgerTyped, Waiting
<1>2. Len(pending) = 1 /\ k = 1
  <2>1. Len(pending) <= 1
    BY <1>0 DEF InTurn, Ledger!Ordered
  <2>2. PICK n : n = Len(pending)
    OBVIOUS
  <2>3. n \in Nat /\ n <= 1 /\ k \in 1 .. n
    BY <1>1, <2>1, <2>2
  <2>4. n = 1 /\ k = 1
    BY <2>3
  <2> QED  BY <2>2, <2>4
<1>3. pending[1] \in Rows /\ RowOK(pending[1])
  <2>1. 1 \in Waiting
    BY <1>2
  <2>2. RowOK(pending[1])
    BY <1>0, <2>1 DEF LedgerTyped
  <2>3. 1 \in 1 .. Len(pending)
    BY <1>2
  <2>4. pending[1] \in Rows
    BY <1>1, <2>3
  <2> QED  BY <2>2, <2>4
<1>4. PICK s : s = pending[1].size /\ s \in Nat /\ s > 0 /\ SharesOf(pending[1], o) = -s
  BY <1>2, <1>3 DEF RowOK, SharesOf, Rows
<1>5. PICK v, t : v = [i \in Waiting |-> SharesOf(pending[i], o)] /\ t = wallet[o] - market.current[o]
  OBVIOUS
<1>6. Sums(v, 1, t)
  BY <1>0, <1>2, <1>5 DEF SharesAgree
<1>7. v[1] = -s
  BY <1>1, <1>2, <1>4, <1>5
<1>8. t = -s
  BY <1>4, <1>6, <1>7, SumOne
<1>9. wallet[o] \in Nat /\ market.current[o] \in Int
  BY <1>0 DEF LedgerTyped, Accounts
<1>10. market.current[o] # 0
  BY <1>4, <1>5, <1>8, <1>9
<1> QED  BY <1>0, <1>10 DEF AccountKept

\* A row that is no redemption keeps the invariant.
LEMMA AppliesOther ==
  ASSUME LedgerInv, NEW k \in Waiting, Applies(k), NEW a, a = pending[k], a.type # "REDEEM"
  PROVE  LedgerInv'
<1>0. /\ LedgerTyped /\ CashAgrees /\ AccountKept /\ InTurn /\ Resolution /\ SharesAgree /\ Unsold
      /\ RedeemsWinner /\ market \in Accounts
      /\ titled' = titled /\ wallet' = wallet /\ cash' = cash /\ winner' = winner /\ closed' = closed
      /\ count' = count /\ tied' = tied /\ sold' = sold
  BY DEF LedgerInv, LedgerTyped, Applies
<1>1. /\ pending' \in Seq(Rows) /\ Len(pending') = Len(pending) - 1 /\ Len(pending) \in Nat \ {0}
      /\ \A i \in Waiting' : \E j \in Waiting \ {k} : pending'[i] = pending[j]
      /\ a \in Rows /\ RowOK(a)
  BY <1>0, AppliesParts
<1>2. /\ market' \in Accounts /\ AccountKept'
      /\ Ledger!pnl_with_rebate(market') = Ledger!pnl_with_rebate(market) + CashOf(a)
      /\ market'.redeem_count = market.redeem_count /\ market'.redeemed = market.redeemed
      /\ market'.redeemed_shares = market.redeemed_shares
      /\ market'.incomplete = market.incomplete
      /\ a.type \in {"SELL", "MERGE"} => market'.recovery > 0
      /\ a.type \notin {"SELL", "MERGE"} => market'.recovery = market.recovery
      /\ titled /\ a.type # "MERGE" =>
           \A o \in Outcomes : market'.current[o] = market.current[o] + SharesOf(a, o)
      /\ a.type = "MERGE" =>
           \A o \in Known(market) : market'.current[o] = market.current[o] + SharesOf(a, o)
      /\ titled /\ a.type \in {"BUY", "SPLIT"} =>
           \A o \in Outcomes : market'.buy[o] = market.buy[o] + SharesOf(a, o)
      /\ a.type \in {"SELL", "MERGE", "MAKER_REBATE"} => market'.buy = market.buy
      /\ a.type # "MERGE" => market'.merged = market.merged
      /\ a.type = "MERGE" => market'.merged = market.merged + a.size
      /\ a.type = "MAKER_REBATE" => market' = [market EXCEPT !.rebate = market'.rebate]
  BY AppliesEffects
<1>3. /\ Waits(a.type) /\ \A t : Waits(t)' => Waits(t)
      /\ \A t : Waits(t) /\ a.type # t => Waits(t)'
      /\ Len(pending) = 1 => Waiting' = {} /\ Waiting = {k}
  BY <1>0, AppliesWaits
<1>4. a.type \in Types
  BY <1>1 DEF Rows
<1>5. \A o \in Outcomes : /\ wallet[o] \in Nat /\ market.current[o] \in Int /\ market.buy[o] \in Nat
                          /\ market'.current[o] \in Int /\ SharesOf(a, o) \in Int
  <2>1. wallet \in [Outcomes -> Nat] /\ a.size \in Nat
    BY <1>0, <1>1 DEF LedgerTyped, Rows
  <2>2. market.current \in [Outcomes -> Int] /\ market.buy \in [Outcomes -> Nat]
    BY <1>0 DEF Accounts
  <2>3. market'.current \in [Outcomes -> Int]
    BY <1>2 DEF Accounts
  <2>4. \A o \in Outcomes : SharesOf(a, o) \in Int
    BY <2>1 DEF SharesOf
  <2> QED  BY <2>1, <2>2, <2>3, <2>4
<1>6. market.merged \in Nat /\ a.size \in Nat /\ market.recovery \in Nat
  BY <1>0, <1>1 DEF Accounts, Rows
<1>7. LedgerTyped'
  <2>1. \A i \in Waiting' : RowOK(pending'[i])
    BY <1>0, <1>1 DEF LedgerTyped
  <2>2. Len(pending') <= count'
    BY <1>0, <1>1, ModelConstants DEF LedgerTyped, Ledger!ConstantsOK
  <2> QED  BY <1>0, <1>1, <1>2, <2>1, <2>2 DEF LedgerTyped
<1>8. CashAgrees'
  <2>1. PICK p, q, u, t : /\ p = Ledger!pnl_with_rebate(market) /\ q = Ledger!pnl_with_rebate(market')
                          /\ u = CashOf(a) /\ t = cash - p
    OBVIOUS
  <2>2. p \in Int /\ u \in Int /\ cash \in Int
    <3>1. p \in Int
      BY <1>0, <2>1 DEF Ledger!pnl_with_rebate, Ledger!pnl, Accounts
    <3>2. u \in Int
      BY <1>1, <2>1 DEF CashOf, Rows
    <3>3. cash \in Int
      BY <1>0 DEF LedgerTyped
    <3> QED  BY <3>1, <3>2, <3>3
  <2>3. t \in Int /\ cash' - q = t - u
    BY <1>0, <1>2, <2>1, <2>2
  <2>4. Sums([i \in Waiting' |-> CashOf(pending'[i])], Len(pending'), t - u)
    BY <1>0, <2>1, <2>3, AppliesSums DEF CashAgrees
  <2> QED  BY <2>1, <2>3, <2>4 DEF CashAgrees
<1>9. InTurn'
  <2> SUFFICES ASSUME ~tied PROVE InTurn'
    BY <1>0 DEF InTurn
  <2>1. CASE Len(pending) <= 1
    BY <1>1, <2>1 DEF InTurn
  <2>2. CASE \A i \in Waiting : ~Ledger!Ordered(pending[i].type)
    <3>1. \A i \in Waiting' : ~Ledger!Ordered(pending'[i].type)
      BY <1>1, <2>2
    <3> QED  BY <1>0, <3>1 DEF InTurn, Ledger!Ordered
  <2> QED  BY <1>0, <2>1, <2>2 DEF InTurn
<1>10. Redeeming' <=> Redeeming
  BY <1>2, <1>3 DEF Redeeming
<1>11. Resolution'
  BY <1>0, <1>1, <1>10 DEF Resolution, Ledger!NoShares
<1>12. BoughtOnly' => BoughtOnly /\ a.type \notin {"SELL", "MERGE"}
  BY <1>2, <1>3, <1>6 DEF BoughtOnly
<1>13. ASSUME titled, ~Redeeming, ~tied \/ BoughtOnly', NEW o \in Outcomes
       PROVE  market'.current[o] = market.current[o] + SharesOf(a, o)
  <2>1. CASE a.type = "MERGE"
    <3>1. o \in Known(market)
      BY <1>12, <1>13, <2>1, MergeIsKnown
    <3> QED  BY <1>2, <2>1, <3>1
  <2>2. CASE a.type # "MERGE"
    BY <1>2, <1>13, <2>2
  <2> QED  BY <2>1, <2>2
<1>14. SharesAgree'
  <2> SUFFICES ASSUME titled, ~Redeeming, ~tied \/ BoughtOnly', NEW o \in Outcomes
               PROVE  Sums([i \in Waiting' |-> SharesOf(pending'[i], o)], Len(pending'),
                           wallet'[o] - market'.current[o])
    BY <1>0, <1>10 DEF SharesAgree
  <2>1. PICK t, u : t = wallet[o] - market.current[o] /\ u = SharesOf(a, o)
    OBVIOUS
  <2>2. Sums([i \in Waiting |-> SharesOf(pending[i], o)], Len(pending), t)
    BY <1>0, <1>12, <2>1 DEF SharesAgree
  <2>3. t \in Int /\ wallet'[o] - market'.current[o] = t - u
    BY <1>0, <1>5, <1>13, <2>1
  <2>4. Sums([i \in Waiting' |-> SharesOf(pending'[i], o)], Len(pending'), t - u)
    BY <1>0, <2>1, <2>2, <2>3, AppliesSums
  <2> QED  BY <2>3, <2>4
<1>15. a.type = "MAKER_REBATE" => \A o \in Outcomes : SharesOf(a, o) = 0
  BY DEF SharesOf
<1>16. Unsold'
  <2>1. ASSUME titled, ~Redeeming, BoughtOnly'
        PROVE  market'.merged = 0 /\ \A o \in Outcomes : market'.current[o] = market'.buy[o]
    <3>1. market.merged = 0 /\ \A o \in Outcomes : market.current[o] = market.buy[o]
      BY <1>0, <1>12, <2>1 DEF Unsold
    <3>2. market'.merged = 0
      BY <1>2, <1>12, <2>1, <3>1
    <3>3. a.type \in {"BUY", "SPLIT", "MAKER_REBATE"}
      BY <1>4, <1>12, <2>1 DEF Types
    <3>4. ASSUME NEW o \in Outcomes PROVE market'.current[o] = market'.buy[o]
      <4>1. market'.current[o] = market.current[o] + SharesOf(a, o)
        BY <1>13, <2>1
      <4>2. market'.buy[o] = market.buy[o] + SharesOf(a, o)
        BY <1>2, <1>5, <1>15, <2>1, <3>3
      <4> QED  BY <3>1, <4>1, <4>2
    <3> QED  BY <3>2, <3>4
  <2>2. ASSUME titled, ~Redeeming, ~tied, NEW o \in Outcomes \ sold
        PROVE  market'.current[o] = market'.buy[o] - market'.merged
    <3>1. market.current[o] = market.buy[o] - market.merged
      BY <1>0, <2>2 DEF Unsold
    <3>2. market'.current[o] = market.current[o] + SharesOf(a, o)
      BY <1>13, <2>2
    <3>3. CASE a.type \in {"BUY", "SPLIT"}
      <4>1. market'.buy[o] = market.buy[o] + SharesOf(a, o) /\ market'.merged = market.merged
        BY <1>2, <2>2, <3>3
      <4> QED  BY <1>5, <1>6, <3>1, <3>2, <4>1
    <3>4. CASE a.type = "SELL"
      <4>1. SharesOf(a, o) = 0
        BY <1>0, <2>2, <3>4 DEF Resolution, SharesOf
      <4>2. market'.buy = market.buy /\ market'.merged = market.merged
        BY <1>2, <3>4
      <4> QED  BY <1>5, <1>6, <3>1, <3>2, <4>1, <4>2
    <3>5. CASE a.type = "MERGE"
      <4>1. SharesOf(a, o) = -a.size
        BY <3>5 DEF SharesOf
      <4>2. market'.buy = market.buy /\ market'.merged = market.merged + a.size
        BY <1>2, <3>5
      <4> QED  BY <1>5, <1>6, <3>1, <3>2, <4>1, <4>2
    <3>6. CASE a.type = "MAKER_REBATE"
      <4>1. market'.buy = market.buy /\ market'.merged = market.merged /\ SharesOf(a, o) = 0
        BY <1>2, <1>15, <3>6
      <4> QED  BY <1>5, <1>6, <3>1, <3>2, <4>1
    <3> QED  BY <1>4, <3>3, <3>4, <3>5, <3>6 DEF Types
  <2> QED  BY <1>0, <1>10, <2>1, <2>2 DEF Unsold
<1>17. RedeemsWinner'
  <2> SUFFICES ASSUME titled, ~tied, Redeeming PROVE RedeemsWinner'
    BY <1>0, <1>10 DEF RedeemsWinner
  <2>1. a.type = "MAKER_REBATE" /\ ~Waits("REDEEM")
    <3>1. ~Waits("REDEEM")
      BY <1>0, <1>3 DEF RedeemsWinner, Waits
    <3>2. a.type \in {"REDEEM", "MAKER_REBATE"}
      BY <1>0 DEF RedeemsWinner
    <3> QED  BY <3>1, <3>2
  <2>2. ~Waits("REDEEM")'
    BY <1>3, <2>1
  <2>3. /\ market'.known = market.known /\ market'.buy = market.buy /\ market'.merged = market.merged
        /\ market'.redeemed_shares = market.redeemed_shares
    BY <1>0, <1>2, <2>1 DEF Accounts
  <2>4. Ledger!has_incomplete_redeem(market') = Ledger!has_incomplete_redeem(market)
    BY <2>3 DEF Ledger!has_incomplete_redeem, Ledger!Distance, Ledger!Kept
  <2>5. \A i \in Waiting' : pending'[i].type \in {"REDEEM", "MAKER_REBATE"}
    BY <1>0, <1>1 DEF RedeemsWinner
  <2> QED  BY <1>0, <1>2, <2>1, <2>2, <2>3, <2>4, <2>5 DEF RedeemsWinner
<1> QED  BY <1>2, <1>7, <1>8, <1>9, <1>11, <1>14, <1>16, <1>17 DEF LedgerInv

\* A redemption keeps the invariant.
LEMMA AppliesRedemption ==
  ASSUME LedgerInv, NEW k \in Waiting, Applies(k), NEW a, a = pending[k], a.type = "REDEEM"
  PROVE  LedgerInv'
<1>0. /\ LedgerTyped /\ CashAgrees /\ AccountKept /\ InTurn /\ Resolution /\ SharesAgree /\ Unsold
      /\ RedeemsWinner /\ market \in Accounts
      /\ titled' = titled /\ wallet' = wallet /\ cash' = cash /\ winner' = winner /\ closed' = closed
      /\ count' = count /\ tied' = tied /\ sold' = sold
  BY DEF LedgerInv, LedgerTyped, Applies
<1>1. /\ pending' \in Seq(Rows) /\ Len(pending') = Len(pending) - 1 /\ Len(pending) \in Nat \ {0}
      /\ \A i \in Waiting' : \E j \in Waiting \ {k} : pending'[i] = pending[j]
      /\ a \in Rows /\ RowOK(a)
  BY <1>0, AppliesParts
<1>2. /\ Waits(a.type) /\ \A t : Waits(t)' => Waits(t)
      /\ Len(pending) = 1 => Waiting' = {} /\ Waiting = {k} /\ \A t : ~Waits(t)'
  BY <1>0, AppliesWaits
<1>3. PICK m, n : m = market /\ n = market' /\ m \in Accounts /\ n = Ledger!apply_activity(m, a)
  BY <1>0 DEF Applies
<1>4. IsRedeemed(m, a, n)
  BY <1>1, <1>3, AppliesRedeem
<1>5. /\ n \in Accounts /\ \A o \in Outcomes : n.current[o] <= m.current[o]
      /\ \A o \in Outcomes : m.current[o] = 0 /\ o \notin Known(m) => n.current[o] = 0
      /\ n.redeemed = m.redeemed + a.amount /\ n.redeemed_shares = m.redeemed_shares + a.amount
      /\ n.recovery = m.recovery + a.amount /\ n.redeem_count = m.redeem_count + 1
      /\ n.incomplete = Ledger!has_incomplete_redeem(n)
      /\ n = [m EXCEPT !.redeemed = n.redeemed, !.redeemed_shares = n.redeemed_shares,
                       !.recovery = n.recovery, !.redeem_count = n.redeem_count,
                       !.incomplete = n.incomplete, !.current = n.current]
  BY <1>4 DEF IsRedeemed
<1>6. /\ n.known = m.known /\ n.buy = m.buy /\ n.merged = m.merged /\ n.cost = m.cost /\ n.rebate = m.rebate
      /\ n.sell_return = m.sell_return /\ n.merge_count = m.merge_count
  BY ZenonT(60), <1>3, <1>5 DEF Accounts
<1>7. /\ m.redeem_count \in Nat /\ m.recovery \in Nat /\ m.cost \in Nat /\ m.rebate \in Nat
      /\ m.redeemed \in Nat /\ m.redeemed_shares \in Nat /\ a.amount \in Nat
      /\ \A o \in Outcomes : m.current[o] \in Int /\ n.current[o] \in Int
  BY ZenonT(60), <1>1, <1>3, <1>5 DEF Accounts, Rows
<1>8. n.redeem_count > 0 /\ Redeeming /\ Redeeming'
  BY <1>2, <1>3, <1>5, <1>7 DEF Redeeming
<1>9. LedgerTyped'
  <2>1. \A i \in Waiting' : RowOK(pending'[i])
    BY <1>0, <1>1 DEF LedgerTyped
  <2>2. Len(pending') <= count'
    BY <1>0, <1>1, ModelConstants DEF LedgerTyped, Ledger!ConstantsOK
  <2> QED  BY <1>0, <1>1, <1>3, <1>5, <2>1, <2>2 DEF LedgerTyped
<1>10. CashAgrees'
  <2>1. PICK p, q, u, t : /\ p = Ledger!pnl_with_rebate(market) /\ q = Ledger!pnl_with_rebate(market')
                          /\ u = CashOf(a) /\ t = cash - p
    OBVIOUS
  <2>2. p \in Int /\ u \in Int /\ cash \in Int /\ q = p + u
    <3>1. u = a.amount /\ u \in Int /\ cash \in Int
      BY <1>0, <1>7, <2>1 DEF CashOf, LedgerTyped
    <3>2. p = m.recovery - m.cost + m.rebate /\ q = n.recovery - n.cost + n.rebate
      BY <1>3, <2>1 DEF Ledger!pnl_with_rebate, Ledger!pnl
    <3> QED  BY <1>5, <1>6, <1>7, <3>1, <3>2
  <2>3. t \in Int /\ cash' - q = t - u
    BY <1>0, <2>1, <2>2
  <2>4. Sums([i \in Waiting' |-> CashOf(pending'[i])], Len(pending'), t - u)
    BY <1>0, <2>1, <2>3, AppliesSums DEF CashAgrees
  <2> QED  BY <2>1, <2>3, <2>4 DEF CashAgrees
<1>11. AccountKept'
  <2>1. \A o \in Outcomes : o \notin Known(n) => n.buy[o] = 0 /\ n.current[o] = 0
    BY <1>0, <1>3, <1>5, <1>6 DEF AccountKept, Known
  <2>2. n.cost = 0 => \A o \in Outcomes : n.current[o] <= 0
    BY <1>0, <1>3, <1>5, <1>6, <1>7 DEF AccountKept
  <2>3. n.redeem_count # 0
    BY <1>8
  <2> QED  BY <1>3, <2>1, <2>2, <2>3 DEF AccountKept, Known
<1>12. InTurn'
  <2> SUFFICES ASSUME ~tied PROVE InTurn'
    BY <1>0 DEF InTurn
  <2>1. Len(pending) <= 1
    BY <1>0 DEF InTurn, Ledger!Ordered
  <2> QED  BY <1>1, <2>1 DEF InTurn
<1>13. Resolution'
  BY <1>0, <1>1, <1>8 DEF Resolution, Ledger!NoShares
<1>14. SharesAgree' /\ Unsold'
  BY <1>8 DEF SharesAgree, Unsold
<1>15. RedeemsWinner'
  <2> SUFFICES ASSUME titled, ~tied PROVE RedeemsWinner'
    BY <1>0 DEF RedeemsWinner
  <2>1. /\ market.redeem_count = 0 /\ Len(pending) = 1
        /\ winner \notin sold => a.amount = market.buy[winner] - market.merged
    BY <1>0, <1>2, <1>8 DEF RedeemsWinner
  <2>2. Waiting' = {} /\ ~Waits("REDEEM")'
    BY <1>2, <2>1
  <2>3. m.redeemed = 0 /\ m.redeemed_shares = 0
    BY <1>0, <1>3, <2>1 DEF AccountKept
  <2>4. n.redeemed = a.amount /\ n.redeemed_shares = a.amount
    BY <1>5, <1>7, <2>3
  <2> QED  BY <1>0, <1>3, <1>5, <1>6, <2>1, <2>2, <2>4 DEF RedeemsWinner
<1> QED  BY <1>9, <1>10, <1>11, <1>12, <1>13, <1>14, <1>15 DEF LedgerInv
-----------------------------------------------------------------------------
(* The steps of a market, and what its report shows *)

LEMMA LedgerConstants == /\ PositionDust \in Nat \ {0} /\ MaxActivities \in Nat
                         /\ Sizes \subseteq Nat \ {0} /\ Costs \subseteq Nat \ {0}
BY ModelConstants DEF Ledger!ConstantsOK

LEMMA LedgerStarts == ASSUME Ledger!Init PROVE LedgerInv
<1>0. /\ titled \in BOOLEAN /\ wallet = Ledger!NoShares /\ cash = 0 /\ winner = "none" /\ closed = FALSE
      /\ pending = << >> /\ market = Ledger!Opened /\ count = 0 /\ tied = FALSE /\ sold = {}
  BY DEF Ledger!Init
<1>1. PICK z : z = [o \in Outcomes |-> 0]
  OBVIOUS
<1>2. Ledger!NoShares = z /\ z \in [Outcomes -> Nat] /\ z \in [Outcomes -> Int] /\ \A o \in Outcomes : z[o] = 0
  BY <1>1 DEF Ledger!NoShares, Ledger!Outcomes, Outcomes
<1>3. Len(pending) = 0 /\ Waiting = {} /\ pending \in Seq(Rows)
  BY <1>0 DEF Waiting
<1>4. market = [known |-> << >>, buy |-> z, current |-> z, cost |-> 0, recovery |-> 0, rebate |-> 0,
                merged |-> 0, redeemed |-> 0, redeemed_shares |-> 0, redeem_count |-> 0,
                merge_count |-> 0, sell_return |-> 0, incomplete |-> FALSE]
  BY <1>0, <1>2 DEF Ledger!Opened
<1>5. market \in Accounts
  BY <1>2, <1>4 DEF Accounts, Knowns
<1>6. LedgerTyped
  <2>1. count \in 0 .. MaxActivities /\ Len(pending) <= count
    BY <1>0, <1>3, LedgerConstants
  <2>2. \A i \in Waiting : RowOK(pending[i])
    BY <1>3
  <2>3. /\ titled \in BOOLEAN /\ closed \in BOOLEAN /\ tied \in BOOLEAN
        /\ winner \in Outcomes \cup {"none"} /\ sold \subseteq Outcomes
    BY <1>0
  <2>4. cash \in Int /\ wallet \in [Outcomes -> Nat]
    BY <1>0, <1>2
  <2> QED  BY <1>3, <1>5, <2>1, <2>2, <2>3, <2>4 DEF LedgerTyped
<1>7. \A t : ~Waits(t)
  BY <1>3 DEF Waits
<1>8. ~Redeeming
  BY <1>4, <1>7 DEF Redeeming
<1>9. Ledger!pnl_with_rebate(market) = 0
  BY <1>4 DEF Ledger!pnl_with_rebate, Ledger!pnl
<1>10. CashAgrees
  <2>1. PICK v : v = [i \in Waiting |-> CashOf(pending[i])]
    OBVIOUS
  <2>2. Sums(v, 0, 0)
    BY SumZero
  <2>3. cash - Ledger!pnl_with_rebate(market) = 0
    BY <1>0, <1>9
  <2> QED  BY <1>3, <2>1, <2>2, <2>3 DEF CashAgrees
<1>11. AccountKept
  BY <1>2, <1>4 DEF AccountKept
<1>12. InTurn
  BY <1>3 DEF InTurn
<1>13. Resolution
  BY <1>0, <1>3, <1>8 DEF Resolution
<1>14. SharesAgree
  <2> SUFFICES ASSUME NEW o \in Outcomes
               PROVE  Sums([i \in Waiting |-> SharesOf(pending[i], o)], Len(pending),
                           wallet[o] - market.current[o])
    BY DEF SharesAgree
  <2>1. PICK v : v = [i \in Waiting |-> SharesOf(pending[i], o)]
    OBVIOUS
  <2>2. Sums(v, 0, 0)
    BY SumZero
  <2>3. wallet[o] - market.current[o] = 0
    BY <1>0, <1>2, <1>4
  <2> QED  BY <1>3, <2>1, <2>2, <2>3
<1>15. Unsold
  BY <1>2, <1>4 DEF Unsold
<1>16. RedeemsWinner
  BY <1>8 DEF RedeemsWinner
<1> QED  BY <1>6, <1>10, <1>11, <1>12, <1>13, <1>14, <1>15, <1>16 DEF LedgerInv

LEMMA LedgerKeeps == ASSUME LedgerInv, [Ledger!Next]_Ledger!vars PROVE LedgerInv'
<1>0. /\ LedgerTyped /\ Resolution /\ wallet \in [Outcomes -> Nat] /\ cash \in Int
      /\ winner \in Outcomes \cup {"none"} /\ sold \subseteq Outcomes /\ market \in Accounts
  BY DEF LedgerInv, LedgerTyped
<1>1. Ledger!Outcomes = Outcomes
  BY DEF Ledger!Outcomes, Outcomes
<1>2. ASSUME NEW o \in Outcomes, NEW s \in Sizes, NEW c \in Costs, Ledger!Buys(o, s, c) PROVE LedgerInv'
  <2>1. s \in Nat /\ s > 0 /\ c \in Nat /\ c > 0
    BY LedgerConstants
  <2>2. PICK a : a = [type |-> "BUY", outcome |-> o, size |-> s, amount |-> c]
    OBVIOUS
  <2>3. a.type = "BUY" /\ a.outcome = o /\ a.size = s /\ a.amount = c
    BY <2>2
  <2>4. a \in Rows /\ RowOK(a)
    BY <2>1, <2>2, <2>3 DEF Rows, RowOK, Types
  <2>5. /\ Ledger!Happens(a) /\ winner = "none" /\ wallet' = [wallet EXCEPT ![o] = @ + s]
        /\ cash' = cash - c /\ winner' = winner /\ sold' = sold
    BY <1>2, <2>2 DEF Ledger!Buys
  <2>6. wallet' \in [Outcomes -> Nat]
    BY <1>0, <2>1, <2>5
  <2>7. cash' = cash + CashOf(a)
    BY <1>0, <2>1, <2>3, <2>5 DEF CashOf
  <2>8. \A p \in Outcomes : wallet'[p] = wallet[p] + SharesOf(a, p)
    BY <1>0, <2>1, <2>3, <2>5 DEF SharesOf
  <2> QED  BY <1>0, <2>3, <2>4, <2>5, <2>6, <2>7, <2>8, HappensKeeps
<1>3. ASSUME NEW o \in Outcomes, NEW s \in Sizes, NEW c \in Costs, Ledger!Sells(o, s, c) PROVE LedgerInv'
  <2>1. s \in Nat /\ s > 0 /\ c \in Nat /\ c > 0
    BY LedgerConstants
  <2>2. PICK a : a = [type |-> "SELL", outcome |-> o, size |-> s, amount |-> c]
    OBVIOUS
  <2>3. a.type = "SELL" /\ a.outcome = o /\ a.size = s /\ a.amount = c
    BY <2>2
  <2>4. a \in Rows /\ RowOK(a)
    BY <2>1, <2>2, <2>3 DEF Rows, RowOK, Types
  <2>5. /\ Ledger!Happens(a) /\ winner = "none" /\ s <= wallet[o] /\ wallet' = [wallet EXCEPT ![o] = @ - s]
        /\ cash' = cash + c /\ winner' = winner /\ sold' = sold \cup {o}
    BY <1>3, <2>2 DEF Ledger!Sells
  <2>6. wallet' \in [Outcomes -> Nat]
    BY <1>0, <2>1, <2>5
  <2>7. cash' = cash + CashOf(a)
    BY <1>0, <2>1, <2>3, <2>5 DEF CashOf
  <2>8. \A p \in Outcomes : wallet'[p] = wallet[p] + SharesOf(a, p)
    BY <1>0, <2>1, <2>3, <2>5 DEF SharesOf
  <2> QED  BY <1>0, <2>3, <2>4, <2>5, <2>6, <2>7, <2>8, HappensKeeps
<1>4. ASSUME NEW s \in Sizes, Ledger!Splits(s) PROVE LedgerInv'
  <2>1. s \in Nat /\ s > 0
    BY LedgerConstants
  <2>2. PICK a : a = [type |-> "SPLIT", outcome |-> "none", size |-> s, amount |-> s]
    OBVIOUS
  <2>3. a.type = "SPLIT" /\ a.size = s /\ a.amount = s
    BY <2>2
  <2>4. a \in Rows /\ RowOK(a)
    BY <2>1, <2>2, <2>3 DEF Rows, RowOK, Types
  <2>5. /\ Ledger!Happens(a) /\ winner = "none" /\ wallet' = [p \in Outcomes |-> wallet[p] + s]
        /\ cash' = cash - s /\ winner' = winner /\ sold' = sold
    BY <1>1, <1>4, <2>2 DEF Ledger!Splits
  <2>6. wallet' \in [Outcomes -> Nat]
    BY <1>0, <2>1, <2>5
  <2>7. cash' = cash + CashOf(a)
    BY <1>0, <2>1, <2>3, <2>5 DEF CashOf
  <2>8. \A p \in Outcomes : wallet'[p] = wallet[p] + SharesOf(a, p)
    BY <1>0, <2>1, <2>3, <2>5 DEF SharesOf
  <2> QED  BY <1>0, <2>3, <2>4, <2>5, <2>6, <2>7, <2>8, HappensKeeps
<1>5. ASSUME NEW s \in Sizes, Ledger!Merges(s) PROVE LedgerInv'
  <2>1. s \in Nat /\ s > 0
    BY LedgerConstants
  <2>2. PICK a : a = [type |-> "MERGE", outcome |-> "none", size |-> s, amount |-> s]
    OBVIOUS
  <2>3. a.type = "MERGE" /\ a.size = s /\ a.amount = s
    BY <2>2
  <2>4. a \in Rows /\ RowOK(a)
    BY <2>1, <2>2, <2>3 DEF Rows, RowOK, Types
  <2>5. /\ Ledger!Happens(a) /\ winner = "none" /\ wallet' = [p \in Outcomes |-> wallet[p] - s]
        /\ \A p \in Outcomes : s <= wallet[p]
        /\ cash' = cash + s /\ winner' = winner /\ sold' = sold
    BY <1>1, <1>5, <2>2 DEF Ledger!Merges
  <2>6. wallet' \in [Outcomes -> Nat]
    BY <1>0, <2>1, <2>5
  <2>7. cash' = cash + CashOf(a)
    BY <1>0, <2>1, <2>3, <2>5 DEF CashOf
  <2>8. \A p \in Outcomes : wallet'[p] = wallet[p] + SharesOf(a, p)
    BY <1>0, <2>1, <2>3, <2>5 DEF SharesOf
  <2> QED  BY <1>0, <2>3, <2>4, <2>5, <2>6, <2>7, <2>8, HappensKeeps
<1>6. CASE Ledger!Redeems
  <2>1. PICK size \in {0, wallet[winner]} :
          Ledger!Happens([type |-> "REDEEM", outcome |-> "none", size |-> size, amount |-> wallet[winner]])
    BY <1>6 DEF Ledger!Redeems
  <2>2. PICK a : a = [type |-> "REDEEM", outcome |-> "none", size |-> size, amount |-> wallet[winner]]
    OBVIOUS
  <2>3. a.type = "REDEEM" /\ a.size = size /\ a.amount = wallet[winner]
    BY <2>2
  <2>4. /\ winner # "none" /\ wallet # Ledger!NoShares /\ wallet' = Ledger!NoShares
        /\ cash' = cash + wallet[winner] /\ winner' = winner /\ sold' = sold /\ Ledger!Happens(a)
    BY <1>6, <2>1, <2>2 DEF Ledger!Redeems
  <2>5. wallet[winner] \in Nat
    BY <1>0, <2>4
  <2>6. a \in Rows /\ RowOK(a)
    BY <2>1, <2>2, <2>3, <2>5 DEF Rows, RowOK, Types
  <2>7. wallet' \in [Outcomes -> Nat]
    BY <1>1, <2>4 DEF Ledger!NoShares
  <2>8. cash' = cash + CashOf(a)
    BY <2>3, <2>4 DEF CashOf
  <2> QED  BY <1>0, <2>3, <2>4, <2>6, <2>7, <2>8, HappensKeeps
<1>7. ASSUME NEW c \in Costs, Ledger!Rebates(c) PROVE LedgerInv'
  <2>1. c \in Nat /\ c > 0
    BY LedgerConstants
  <2>2. PICK a : a = [type |-> "MAKER_REBATE", outcome |-> "none", size |-> 0, amount |-> c]
    OBVIOUS
  <2>3. a.type = "MAKER_REBATE" /\ a.size = 0 /\ a.amount = c
    BY <2>2
  <2>4. a \in Rows /\ RowOK(a)
    BY <2>1, <2>2, <2>3 DEF Rows, RowOK, Types
  <2>5. /\ Ledger!Happens(a) /\ wallet' = wallet
        /\ cash' = cash + c /\ winner' = winner /\ sold' = sold
    BY <1>7, <2>2 DEF Ledger!Rebates
  <2>6. wallet' \in [Outcomes -> Nat]
    BY <1>0, <2>5
  <2>7. cash' = cash + CashOf(a)
    BY <2>3, <2>5 DEF CashOf
  <2>8. \A p \in Outcomes : wallet'[p] = wallet[p] + SharesOf(a, p)
    BY <1>0, <2>3, <2>5 DEF SharesOf
  <2> QED  BY <1>0, <2>3, <2>4, <2>5, <2>6, <2>7, <2>8, HappensKeeps
<1>8. CASE Ledger!aggregate_markets
  <2>1. PICK k \in DOMAIN pending : /\ market' = Ledger!apply_activity(market, pending[k])
                                    /\ pending' = Ledger!RemoveAt(pending, k)
    BY <1>8 DEF Ledger!aggregate_markets
  <2>2. k \in Waiting
    <3>1. pending \in Seq(Rows)
      BY <1>0 DEF LedgerTyped
    <3> QED  BY <2>1, <3>1 DEF Waiting
  <2>3. Applies(k)
    BY <1>8, <2>1, <2>2 DEF Ledger!aggregate_markets, Applies
  <2>4. PICK a : a = pending[k]
    OBVIOUS
  <2> QED  BY <2>2, <2>3, <2>4, AppliesOther, AppliesRedemption
<1>9. ASSUME UNCHANGED <<titled, wallet, cash, pending, market, count, tied, sold>>,
             winner' \in Outcomes \cup {"none"}, closed' \in BOOLEAN, closed' => winner' # "none",
             winner' = winner \/ winner = "none"
      PROVE  LedgerInv'
  <2>0. /\ LedgerTyped /\ CashAgrees /\ AccountKept /\ InTurn /\ Resolution /\ SharesAgree /\ Unsold
        /\ RedeemsWinner
    BY DEF LedgerInv
  <2>1. /\ titled' = titled /\ wallet' = wallet /\ cash' = cash /\ pending' = pending /\ market' = market
        /\ count' = count /\ tied' = tied /\ sold' = sold
    BY <1>9
  <2>2. Waiting' = Waiting /\ (Redeeming' <=> Redeeming) /\ (BoughtOnly' <=> BoughtOnly)
        /\ \A t : Waits(t)' <=> Waits(t)
    BY <2>1 DEF Waiting, Redeeming, BoughtOnly, Waits
  <2>3. Redeeming => winner' = winner
    BY <1>9, <2>0 DEF Resolution
  <2>4. LedgerTyped' /\ CashAgrees'
    BY <1>9, <2>0, <2>1, <2>2 DEF LedgerTyped, CashAgrees
  <2>5. AccountKept' /\ InTurn' /\ SharesAgree' /\ Unsold'
    BY <2>0, <2>1, <2>2 DEF AccountKept, InTurn, SharesAgree, Unsold, Known, Ledger!Ordered
  <2>6. Resolution'
    BY <1>9, <2>0, <2>1, <2>2, <2>3 DEF Resolution, Ledger!NoShares
  <2>7. RedeemsWinner'
    BY <2>0, <2>1, <2>2, <2>3 DEF RedeemsWinner
  <2> QED  BY <2>4, <2>5, <2>6, <2>7 DEF LedgerInv
<1>10. CASE Ledger!Resolves
  BY <1>0, <1>1, <1>9, <1>10 DEF Ledger!Resolves, LedgerTyped, Resolution
<1>11. CASE Ledger!apply_market_metadata
  BY <1>0, <1>9, <1>11 DEF Ledger!apply_market_metadata
<1>12. CASE UNCHANGED Ledger!vars
  BY <1>0, <1>9, <1>12 DEF Ledger!vars, LedgerTyped, Resolution
<1> QED  BY <1>1, <1>2, <1>3, <1>4, <1>5, <1>6, <1>7, <1>8, <1>10, <1>11, <1>12 DEF Ledger!Next
\* The parts of LedgerAgrees follow from the invariant.
LEMMA LedgerShows == ASSUME LedgerInv PROVE Ledger!LedgerAgrees
<1>0. /\ LedgerTyped /\ CashAgrees /\ AccountKept /\ Resolution /\ SharesAgree /\ Unsold /\ RedeemsWinner
      /\ market \in Accounts /\ wallet \in [Outcomes -> Nat] /\ cash \in Int
      /\ winner \in Outcomes \cup {"none"}
  BY DEF LedgerInv, LedgerTyped
<1>1. PICK m : m = market /\ m \in Accounts
  BY <1>0
<1>2. /\ m.buy \in [Outcomes -> Nat] /\ m.current \in [Outcomes -> Int] /\ m.cost \in Nat
      /\ m.recovery \in Nat /\ m.rebate \in Nat /\ m.merged \in Nat /\ m.redeemed \in Nat
      /\ m.redeemed_shares \in Nat /\ m.redeem_count \in Nat /\ m.merge_count \in Nat
      /\ m.sell_return \in Nat /\ m.incomplete \in BOOLEAN
  BY <1>1 DEF Accounts
<1>3. PositionDust \in Nat /\ PositionDust > 0
  BY LedgerConstants
<1>4. Ledger!Outcomes = Outcomes
  BY DEF Ledger!Outcomes, Outcomes
<1>5. /\ \A o \in Outcomes : o \notin Known(m) => m.buy[o] = 0 /\ m.current[o] = 0
      /\ m.cost = 0 => \A o \in Outcomes : m.current[o] <= 0
      /\ m.redeem_count = 0 => m.redeemed = 0 /\ m.redeemed_shares = 0
      /\ m.redeem_count = 0 /\ m.sell_return = 0 /\ m.merge_count = 0 => m.recovery = 0
  BY <1>0, <1>1 DEF AccountKept
<1> SUFFICES ASSUME pending = << >> PROVE Ledger!LedgerAgrees
  BY DEF Ledger!LedgerAgrees, Ledger!TotalsAgree, Ledger!HoldingsAgree, Ledger!ResultIsWinner,
         Ledger!EveryMarketCounts, Ledger!HypotheticalAgrees, Ledger!Applied
<1>6. Len(pending) = 0 /\ Waiting = {}
  BY DEF Waiting
<1>7. \A t : ~Waits(t)
  BY <1>6 DEF Waits
<1>8. Redeeming <=> m.redeem_count > 0
  BY <1>1, <1>7 DEF Redeeming
<1>9. cash = m.recovery - m.cost + m.rebate
  <2>1. PICK v, t : v = [i \in Waiting |-> CashOf(pending[i])] /\ t = cash - Ledger!pnl_with_rebate(market)
    OBVIOUS
  <2>2. Sums(v, 0, t)
    BY <1>0, <1>6, <2>1 DEF CashAgrees
  <2>3. t = 0
    BY <2>2, SumNone
  <2>4. PICK p : p = Ledger!pnl_with_rebate(market)
    OBVIOUS
  <2>5. p = m.recovery - m.cost + m.rebate
    BY <1>1, <2>4 DEF Ledger!pnl_with_rebate, Ledger!pnl
  <2>6. p \in Int
    BY <1>2, <2>5
  <2>7. cash = p
    BY <1>0, <2>1, <2>3, <2>4, <2>6
  <2> QED  BY <2>5, <2>7
<1>10. ASSUME titled, ~Redeeming, ~tied \/ BoughtOnly, NEW o \in Outcomes PROVE wallet[o] = m.current[o]
  <2>1. PICK v, t : v = [i \in Waiting |-> SharesOf(pending[i], o)] /\ t = wallet[o] - market.current[o]
    OBVIOUS
  <2>2. Sums(v, 0, t)
    BY <1>0, <1>6, <1>10, <2>1 DEF SharesAgree
  <2>3. t = 0
    BY <2>2, SumNone
  <2>4. wallet[o] \in Nat /\ m.current[o] \in Int
    BY <1>0, <1>2
  <2> QED  BY <1>1, <2>1, <2>3, <2>4
<1>11. Ledger!TotalsAgree
  BY <1>1, <1>9 DEF Ledger!TotalsAgree, Ledger!pnl_with_rebate, Ledger!pnl
<1>12. Ledger!HoldingsAgree
  <2> SUFFICES ASSUME titled, ~tied, NEW o \in Outcomes
               PROVE  Ledger!current_shares_for(m, o) = Ledger!positive_position(wallet[o])
    BY <1>1, <1>4 DEF Ledger!HoldingsAgree
  <2>1. CASE m.redeem_count > 0
    <3>1. wallet[o] = 0
      BY <1>0, <1>4, <1>8, <2>1 DEF Resolution, Ledger!NoShares
    <3>2. Ledger!current_shares_for(m, o) = 0
      BY <2>1 DEF Ledger!current_shares_for
    <3> QED  BY <1>3, <3>1, <3>2 DEF Ledger!positive_position
  <2>2. CASE m.redeem_count = 0
    <3>1. wallet[o] = m.current[o]
      BY <1>8, <1>10, <2>2
    <3>2. CASE o \in Known(m)
      BY <2>2, <3>1, <3>2 DEF Ledger!current_shares_for, Known
    <3>3. CASE o \notin Known(m)
      <4>1. wallet[o] = 0
        BY <1>5, <3>1, <3>3
      <4>2. Ledger!current_shares_for(m, o) = 0
        BY <3>3 DEF Ledger!current_shares_for, Known
      <4> QED  BY <1>3, <4>1, <4>2 DEF Ledger!positive_position
    <3> QED  BY <3>2, <3>3
  <2> QED  BY <1>2, <2>1, <2>2
<1>13. Ledger!ResultIsWinner
  <2> SUFFICES ASSUME titled, ~tied, winner \notin sold, m.buy["up"] # m.buy["down"]
               PROVE  /\ Ledger!inferred_result(m) \in {"open", "settled", winner}
                      /\ m.redeem_count > 0 => ~m.incomplete /\ Ledger!inferred_result(m) # "open"
                      /\ m.redeemed > 0 => Ledger!inferred_result(m) = winner
    BY <1>1 DEF Ledger!ResultIsWinner
  <2>1. CASE m.redeem_count = 0
    <3>1. m.redeemed = 0
      BY <1>5, <2>1
    <3>2. Ledger!inferred_result(m) \in {"open", winner}
      BY <1>0, <2>1 DEF Ledger!inferred_result, LedgerTyped
    <3> QED  BY <2>1, <3>1, <3>2
  <2>2. CASE m.redeem_count > 0
    <3>1. PICK w : w = winner
      OBVIOUS
    <3>2. w \in Outcomes
      BY <1>0, <1>8, <2>2, <3>1 DEF Resolution
    <3>3. /\ m.redeemed = m.buy[w] - m.merged /\ m.redeemed_shares = m.redeemed
          /\ m.incomplete = Ledger!has_incomplete_redeem(m)
      BY <1>0, <1>1, <1>7, <1>8, <2>2, <3>1 DEF RedeemsWinner
    <3>4. m.buy[w] \in Nat
      BY <1>2, <3>2
    <3>5. PICK r : r = Ledger!infer_redeem_outcome(m)
      OBVIOUS
    <3>6. /\ closed => Ledger!inferred_result(m) = w
          /\ ~closed /\ ~m.incomplete =>
               Ledger!inferred_result(m) = IF r = "none" THEN "settled" ELSE r
      BY <1>0, <1>2, <2>2, <3>1, <3>5 DEF Ledger!inferred_result, LedgerTyped
    <3>7. w # "open"
      BY <3>2 DEF Outcomes
    <3>8. CASE m.redeemed = 0
      <4>1. ~m.incomplete
        <5>1. ~Ledger!has_incomplete_redeem(m)
          BY <3>3, <3>8 DEF Ledger!has_incomplete_redeem
        <5> QED  BY <3>3, <5>1
      <4>2. r = "none"
        BY <3>3, <3>5, <3>8 DEF Ledger!infer_redeem_outcome
      <4> QED  BY <3>1, <3>6, <3>7, <3>8, <4>1, <4>2
    <3>9. CASE m.redeemed > 0
      <4>1. w \in Known(m)
        BY <1>2, <1>5, <3>2, <3>3, <3>9
      <4>2. Ledger!Distance(m, w) = 0
        BY <1>2, <3>3, <3>9 DEF Ledger!Distance, Ledger!Kept, Ledger!positive
      <4>3. ~m.incomplete
        <5>1. ~(Ledger!Distance(m, w) >= PositionDust)
          BY <1>3, <4>2
        <5>2. ~Ledger!has_incomplete_redeem(m)
          BY <4>1, <5>1 DEF Ledger!has_incomplete_redeem, Known
        <5> QED  BY <3>3, <5>2
      <4>4. m.known # << >>
        BY <4>1, KnownParts DEF Known
      <4>5. /\ \A o \in Outcomes : Ledger!Distance(m, o) \in Nat
            /\ r \in Known(m) /\ Ledger!Distance(m, r) <= Ledger!Distance(m, w)
        BY <1>1, <3>3, <3>5, <3>9, <4>1, <4>3, <4>4, InferParts
      <4>6. r \in Outcomes
        BY <1>1, <4>5, KnownParts DEF Accounts, Knowns, Known, Outcomes
      <4>7. Ledger!Distance(m, r) = 0
        BY <4>2, <4>5, <4>6
      <4>8. m.buy[r] \in Nat
        BY <1>2, <4>6
      <4>9. PICK x, y, g, d : x = m.buy[r] /\ y = m.buy[w] /\ g = m.merged /\ d = m.redeemed
        OBVIOUS
      <4>10. x \in Nat /\ y \in Nat /\ g \in Nat /\ d \in Nat /\ d > 0 /\ d = y - g
        BY <1>2, <3>3, <3>4, <3>9, <4>8, <4>9
      <4>11. PICK h : h = Ledger!Kept(m, r)
        OBVIOUS
      <4>12. h = IF x - g > 0 THEN x - g ELSE 0
        BY <4>9, <4>11 DEF Ledger!Kept, Ledger!positive
      <4>13. (IF h - d < 0 THEN -(h - d) ELSE h - d) = 0
        BY <3>3, <4>7, <4>9, <4>11 DEF Ledger!Distance
      <4>14. x = y
        <5>1. h \in Int
          BY <4>10, <4>12
        <5>2. h = d
          BY <4>10, <4>13, <5>1
        <5>3. x - g = d
          BY <4>10, <4>12, <5>2
        <5> QED  BY <4>10, <5>3
      <4>15. r = w
        <5>1. m.buy[r] = m.buy[w]
          BY <4>9, <4>14
        <5>2. (r = "up" \/ r = "down") /\ (w = "up" \/ w = "down")
          BY <3>2, <4>6 DEF Outcomes
        <5>3. CASE r = "up" /\ w = "down"
          BY <5>1, <5>3
        <5>4. CASE r = "down" /\ w = "up"
          BY <5>1, <5>4
        <5> QED  BY <5>2, <5>3, <5>4
      <4>16. r # "none"
        BY <4>6 DEF Outcomes
      <4> QED  BY <3>1, <3>6, <3>7, <4>3, <4>15, <4>16
    <3> QED  BY <1>2, <3>8, <3>9
  <2> QED  BY <1>2, <2>1, <2>2
<1>14. Ledger!EveryMarketCounts
  <2> SUFFICES ASSUME ~Ledger!is_settled(m), ~m.incomplete PROVE Ledger!is_open_market(m)
    BY <1>1 DEF Ledger!EveryMarketCounts, Ledger!is_reliable_settled
  <2>1. /\ ~closed /\ Ledger!open_exposure(m) # 0 /\ m.redeem_count = 0 /\ m.sell_return = 0
        /\ m.merge_count = 0
    BY <1>2 DEF Ledger!is_settled
  <2>2. m.recovery = 0
    BY <1>5, <2>1
  <2>3. "up" \in Outcomes /\ "down" \in Outcomes
    BY DEF Outcomes
  <2>4. \A o \in Outcomes : /\ Ledger!current_shares_for(m, o) \in Nat
                            /\ m.current[o] <= 0 => Ledger!current_shares_for(m, o) = 0
    <3> TAKE o \in Outcomes
    <3>1. m.current[o] \in Int
      BY <1>2
    <3> QED  BY <1>3, <3>1 DEF Ledger!current_shares_for, Ledger!positive_position
  <2>5. PICK x, y : x = Ledger!current_shares_for(m, "up") /\ y = Ledger!current_shares_for(m, "down")
    OBVIOUS
  <2>6. x \in Nat /\ y \in Nat /\ Ledger!open_exposure(m) = x + y
    BY <2>3, <2>4, <2>5 DEF Ledger!open_exposure
  <2>7. m.cost # 0
    <3>1. ASSUME m.cost = 0 PROVE x = 0 /\ y = 0
      BY <1>5, <2>3, <2>4, <2>5, <3>1
    <3> QED  BY <2>1, <2>6, <3>1
  <2>8. Ledger!open_exposure(m) > 0
    BY <2>1, <2>6
  <2> QED  BY <1>2, <2>1, <2>2, <2>7, <2>8 DEF Ledger!is_open_market
<1>15. Ledger!HypotheticalAgrees
  <2> SUFFICES ASSUME titled, m.recovery = 0, m.redeem_count = 0, NEW o \in Outcomes
               PROVE  Ledger!hypothetical_pnl(m, o) = Ledger!positive_position(wallet[o]) + cash - m.rebate
    BY <1>1, <1>4 DEF Ledger!HypotheticalAgrees
  <2>1. BoughtOnly /\ ~Redeeming
    BY <1>1, <1>7, <1>8 DEF BoughtOnly
  <2>2. wallet[o] = m.current[o] /\ m.merged = 0 /\ m.current[o] = m.buy[o]
    BY <1>0, <1>1, <1>10, <2>1 DEF Unsold
  <2>3. m.buy[o] \in Nat
    BY <1>2
  <2>4. PICK p : p = Ledger!positive_position(wallet[o]) /\ p \in Nat
    BY <2>2, <2>3 DEF Ledger!positive_position
  <2>5. m.buy[o] - m.merged = wallet[o]
    BY <2>2, <2>3
  <2>6. Ledger!hypothetical_pnl(m, o) = p - m.cost
    BY <2>4, <2>5 DEF Ledger!hypothetical_pnl
  <2> QED  BY <1>2, <1>9, <2>4, <2>6
<1> QED  BY <1>11, <1>12, <1>13, <1>14, <1>15 DEF Ledger!LedgerAgrees

\* And the types that TLC checks.
LEMMA LedgerTypes == ASSUME LedgerInv PROVE Ledger!TypeOK
<1>1. LedgerTyped /\ market \in Accounts
  BY DEF LedgerInv, LedgerTyped
<1>2. Ledger!Outcomes = Outcomes
  BY DEF Ledger!Outcomes, Outcomes
<1>3. DOMAIN market = DOMAIN Ledger!Opened
  BY <1>1 DEF Accounts, Ledger!Opened
<1>4. market.known \in Knowns /\ market.buy \in [Outcomes -> Nat] /\ market.current \in [Outcomes -> Int]
  BY <1>1 DEF Accounts
<1>5. Ledger!ToSet(market.known) \subseteq Outcomes
  BY <1>4, KnownParts DEF Knowns, Outcomes
<1>6. Ledger!IsInjective(market.known)
  <2>1. CASE market.known = << >>
    BY <2>1 DEF Ledger!IsInjective
  <2>2. CASE market.known \in {<<"up">>, <<"down">>}
    BY <2>2 DEF Ledger!IsInjective
  <2>3. CASE market.known \in {<<"up", "down">>, <<"down", "up">>}
    BY <2>3 DEF Ledger!IsInjective
  <2> QED  BY <1>4, <2>1, <2>2, <2>3 DEF Knowns
<1> QED  BY <1>1, <1>2, <1>3, <1>4, <1>5, <1>6 DEF Ledger!TypeOK, LedgerTyped

-----------------------------------------------------------------------------
(* The reports *)

\* A task says "running" only while it is worked on, the task that deleted the activities
\* last has all of its own stored, and the totals, positions, results, counts and profits of
\* a report agree with the wallet: for analyses that overlap, fail, are deleted and are cut
\* off by a restart, and for every series of activities of a market that a wallet can make.
THEOREM ReportsAreKept_holds == Reports!Spec /\ Ledger!Spec => []ReportsAreKept
<1>1. Reports!Init => ReportsInv
  BY ReportsStart
<1>2. ReportsInv /\ [Reports!Next]_(Reports!vars) => ReportsInv'
  BY ReportsKeep
<1>3. Ledger!Init => LedgerInv
  BY LedgerStarts
<1>4. LedgerInv /\ [Ledger!Next]_(Ledger!vars) => LedgerInv'
  BY LedgerKeeps
<1>5. ReportsInv /\ LedgerInv => ReportsAreKept
  BY LedgerShows DEF ReportsAreKept, ReportsInv
<1> QED  BY <1>1, <1>2, <1>3, <1>4, <1>5, PTL DEF Reports!Spec, Ledger!Spec

-----------------------------------------------------------------------------
(* Notifications: the types that TLC checks *)

Stays == <<enabled, configured, candle, verdict, persisted, notified>>

CandlesTyped ==
  /\ enabled \in BOOLEAN /\ configured \in BOOLEAN
  /\ candle \in [Candles -> {"none", "polymarket", "chainlink", "binance"}]
  /\ verdict \in [Candles -> {"none", "long", "short"}]
  /\ persisted \subseteq Markets /\ notified \subseteq Markets

\* Who fetches holds the lock.
LockIsHeld == \A w \in Workers : At(w, "fetch") <=> lock = w

\* A message arrives at most once for each attempt.
FewMessages == \A k \in Keys : received[k] <= Attempts

TypeInv == CandlesTyped /\ LockIsHeld /\ FewMessages

\* The other workers stay as they are, and this one neither asks for a result nor did.
Unlocked(w) ==
  /\ worker[w].at # "fetch" /\ worker'[w].at # "fetch"
  /\ \A v \in Workers \ {w} : worker'[v] = worker[v]
  /\ lock' = lock

LEMMA UnlockedKeeps ==
  ASSUME LockIsHeld, NEW w \in Workers, Unlocked(w)
  PROVE  LockIsHeld'
BY DEF LockIsHeld, Unlocked, At

LEMMA GoesParts ==
  ASSUME Inv, NEW w \in Workers, NEW at, Goes(w, at)
  PROVE  worker'[w].at = at /\ \A v \in Workers \ {w} : worker'[v] = worker[v]
<1>1. worker \in [Workers -> Records] /\ worker[w] \in Records
  BY DEF Inv, RowsTyped
<1>2. worker'[w] = [worker[w] EXCEPT !.at = at] /\ \A v \in Workers \ {w} : worker'[v] = worker[v]
  BY <1>1 DEF Goes
<1>3. [worker[w] EXCEPT !.at = at].at = at
  BY <1>1 DEF Records
<1> QED  BY <1>2, <1>3

LEMMA EndsParts ==
  ASSUME Inv, NEW w \in Workers, Ends(w) \/ Returns(w)
  PROVE  worker'[w].at \in {"idle", "broadcast"} /\ \A v \in Workers \ {w} : worker'[v] = worker[v]
<1>1. worker \in [Workers -> Records]
  BY DEF Inv, RowsTyped
<1>2. CASE Ends(w)
  BY <1>1, <1>2 DEF Ends, Idle
<1>3. CASE Returns(w)
  <2>1. PICK r : r = [Idle EXCEPT !.at = "broadcast", !.of = worker[w].of]
    OBVIOUS
  <2>2. r.at = "broadcast" /\ worker' = [worker EXCEPT ![w] = r]
    BY <1>3, <2>1 DEF Returns, Idle
  <2> QED  BY <1>1, <2>2
<1> QED  BY <1>2, <1>3

LEMMA HasResultParts ==
  ASSUME Inv, NEW w \in Workers, NEW d, HasResult(w, d)
  PROVE  worker'[w].at = "persist" /\ \A v \in Workers \ {w} : worker'[v] = worker[v]
<1>1. worker \in [Workers -> Records] /\ worker[w] \in Records
  BY DEF Inv, RowsTyped
<1> QED  BY <1>1 DEF HasResult, Records

LEMMA FinalisesTyped ==
  ASSUME Inv, TypeInv, NEW w \in Workers, Finalises(w) PROVE TypeInv'
<1>0. CandlesTyped /\ LockIsHeld /\ FewMessages /\ InHand(w) /\ NoOne \notin Workers
  BY NotificationsAssumption DEF TypeInv, Inv
<1>1. FewMessages'
  BY <1>0 DEF Finalises, polymarket_boundary_result, PastResultAnswered, PastResultCached,
              PastResultAsked, PersistsResult, ChecksNotified, ReadsCandle, MarksNotified, rows, FewMessages
<1>2. CASE \/ \E d \in Directions : polymarket_boundary_result(w, d)
           \/ PastResultCached(w) \/ ChecksNotified(w) \/ ReadsCandle(w)
  <2>1. lock' = lock
    BY <1>2 DEF polymarket_boundary_result, PastResultCached, ChecksNotified, ReadsCandle, rows, memory
  <2>2. CandlesTyped'
    BY <1>0, <1>2 DEF polymarket_boundary_result, PastResultCached, ChecksNotified, ReadsCandle, rows, memory,
                      CandlesTyped
  <2>3. ASSUME NEW d \in Directions, polymarket_boundary_result(w, d) PROVE Unlocked(w)
    <3>1. HasResult(w, d) /\ worker[w].at # "fetch"
      BY <2>3 DEF polymarket_boundary_result, At
    <3> QED  BY <2>1, <3>1, HasResultParts DEF Unlocked
  <2>4. ASSUME PastResultCached(w) PROVE Unlocked(w)
    <3>1. PICK d : d = cache[worker[w].of]
      OBVIOUS
    <3>2. HasResult(w, d) /\ worker[w].at # "fetch"
      BY <2>4, <3>1 DEF PastResultCached, At
    <3> QED  BY <2>1, <3>2, HasResultParts DEF Unlocked
  <2>5. ASSUME ChecksNotified(w) \/ ReadsCandle(w) PROVE Unlocked(w)
    <3>1. worker[w].at # "fetch" /\ (Ends(w) \/ Goes(w, "read") \/ Goes(w, "analyse"))
      BY <2>5 DEF ChecksNotified, ReadsCandle, At
    <3> QED  BY <2>1, <3>1, EndsParts, GoesParts DEF Unlocked
  <2>6. Unlocked(w)
    BY <1>2, <2>3, <2>4, <2>5
  <2> QED  BY <1>0, <1>1, <2>2, <2>6, UnlockedKeeps DEF TypeInv
<1>3. CASE PastResultAsked(w)
  <2>1. CandlesTyped'
    BY <1>0, <1>3 DEF PastResultAsked, rows, CandlesTyped
  <2>2. /\ lock = NoOne /\ lock' = w /\ worker'[w].at = "fetch"
        /\ \A v \in Workers \ {w} : worker'[v] = worker[v]
    BY <1>3, GoesParts DEF PastResultAsked
  <2>3. LockIsHeld'
    BY <1>0, <2>2 DEF LockIsHeld, At
  <2> QED  BY <1>1, <2>1, <2>3 DEF TypeInv
<1>4. ASSUME NEW d \in Directions, PastResultAnswered(w, d) PROVE TypeInv'
  <2>1. CandlesTyped'
    BY <1>0, <1>4 DEF PastResultAnswered, rows, CandlesTyped
  <2>2. /\ lock = w /\ lock' = NoOne /\ worker'[w].at # "fetch"
        /\ \A v \in Workers \ {w} : worker'[v] = worker[v]
    BY <1>0, <1>4, HasResultParts DEF PastResultAnswered, LockIsHeld
  <2>3. LockIsHeld'
    BY <1>0, <2>2 DEF LockIsHeld, At
  <2> QED  BY <1>1, <2>1, <2>3 DEF TypeInv
<1>5. CASE PersistsResult(w)
  <2>1. worker[w].of \in Markets /\ worker[w].at = "persist"
    BY <1>0, <1>5 DEF PersistsResult, At, InHand, Closing
  <2>2. CandlesTyped'
    BY <1>0, <1>5, <2>1 DEF PersistsResult, CandlesTyped, Candles
  <2>3. Unlocked(w)
    BY <1>5, <2>1, GoesParts DEF PersistsResult, Unlocked
  <2> QED  BY <1>0, <1>1, <2>2, <2>3, UnlockedKeeps DEF TypeInv
<1>6. CASE MarksNotified(w)
  <2>1. CandlesTyped'
    BY <1>0, <1>6 DEF MarksNotified, rows, CandlesTyped
  <2>2. worker[w].at # "fetch" /\ Ends(w) /\ lock' = lock
    BY <1>6 DEF MarksNotified, At
  <2>3. Unlocked(w)
    BY <2>2, EndsParts DEF Unlocked
  <2> QED  BY <1>0, <1>1, <2>1, <2>3, UnlockedKeeps DEF TypeInv
<1> QED  BY <1>2, <1>3, <1>4, <1>5, <1>6 DEF Finalises

\* What a delivery does to its worker.
LEMMA DeliversParts ==
  ASSUME Inv, NEW w \in Workers, Delivers(w)
  PROVE  Unlocked(w) /\ UNCHANGED Stays
<1>0. worker \in [Workers -> Records] /\ worker[w] \in Records
  BY DEF Inv, RowsTyped
<1>1. CASE Analyses(w)
  <2>1. worker[w].at # "fetch" /\ lock' = lock /\ UNCHANGED Stays
    BY <1>1 DEF Analyses, At, memory, Stays
  <2>2. CASE Returns(w)
    BY <2>1, <2>2, EndsParts DEF Unlocked
  <2>3. CASE ~Returns(w)
    <3>1. PICK x : worker' = [worker EXCEPT ![w].at = "switch", ![w].result = "none", ![w].kinds = x]
      BY <1>1, <2>3 DEF Analyses
    <3>2. worker'[w].at = "switch" /\ \A v \in Workers \ {w} : worker'[v] = worker[v]
      BY <1>0, <3>1 DEF Records
    <3> QED  BY <2>1, <3>2 DEF Unlocked
  <2> QED  BY <2>1, <2>2, <2>3
<1>2. CASE ReadsSwitch(w)
  <2>1. worker[w].at # "fetch" /\ lock' = lock /\ UNCHANGED Stays
    BY <1>2 DEF ReadsSwitch, At, rows, memory, Stays
  <2>2. PICK x : worker' = [worker EXCEPT ![w].at = "insert", ![w].status = x]
    BY <1>2 DEF ReadsSwitch
  <2>3. worker'[w].at = "insert" /\ \A v \in Workers \ {w} : worker'[v] = worker[v]
    BY <1>0, <2>2 DEF Records
  <2> QED  BY <2>1, <2>3 DEF Unlocked
<1>3. CASE InsertsRow(w)
  <2>1. worker[w].at # "fetch" /\ lock' = lock /\ UNCHANGED Stays
    BY <1>3 DEF InsertsRow, At, memory, Stays
  <2>2. PICK x \in {"send", "event"} : worker' = [worker EXCEPT ![w].at = x, ![w].status = "none"]
    BY <1>3 DEF InsertsRow
  <2>3. worker'[w].at = x /\ \A v \in Workers \ {w} : worker'[v] = worker[v]
    BY <1>0, <2>2 DEF Records
  <2> QED  BY <2>1, <2>2, <2>3 DEF Unlocked
<1>4. CASE send_telegram_message(w)
  <2>1. worker[w].at = "send" /\ lock' = lock /\ UNCHANGED Stays
    BY <1>4 DEF send_telegram_message, At, memory, Stays
  <2>2. Decides(w, "confirm") \/ Decides(w, "give_up") \/ worker' = [worker EXCEPT ![w].tries = @ + 1]
    BY <1>4 DEF send_telegram_message, Retries
  <2>3. worker'[w].at # "fetch" /\ \A v \in Workers \ {w} : worker'[v] = worker[v]
    BY <1>0, <2>1, <2>2 DEF Records, Decides
  <2> QED  BY <2>1, <2>3 DEF Unlocked
<1>5. CASE Confirms(w) \/ GivesUp(w)
  <2>1. worker[w].at # "fetch" /\ lock' = lock /\ UNCHANGED Stays /\ Goes(w, "event")
    BY <1>5 DEF Confirms, GivesUp, At, memory, Stays
  <2> QED  BY <2>1, GoesParts DEF Unlocked
<1>6. CASE RecordsEvent(w)
  <2>1. worker[w].at # "fetch" /\ lock' = lock /\ UNCHANGED Stays
    BY <1>6 DEF RecordsEvent, At, rows, memory, Stays
  <2>2. CASE Returns(w)
    BY <2>1, <2>2, EndsParts DEF Unlocked
  <2>3. CASE ~Returns(w)
    <3>1. worker' = [worker EXCEPT ![w].at = "switch", ![w].kinds = Tail(@)]
      BY <1>6, <2>3 DEF RecordsEvent
    <3>2. worker'[w].at = "switch" /\ \A v \in Workers \ {w} : worker'[v] = worker[v]
      BY <1>0, <3>1 DEF Records
    <3> QED  BY <2>1, <3>2 DEF Unlocked
  <2> QED  BY <2>1, <2>2, <2>3
<1> QED  BY <1>1, <1>2, <1>3, <1>4, <1>5, <1>6 DEF Delivers

LEMMA DeliversTyped ==
  ASSUME Inv, TypeInv, NEW w \in Workers, Delivers(w) PROVE TypeInv'
<1>0. CandlesTyped /\ LockIsHeld /\ FewMessages /\ InHand(w) /\ InOrder(w) /\ Claims(w) /\ RowsTyped
  BY DEF TypeInv, Inv
<1>1. Unlocked(w) /\ UNCHANGED Stays
  BY DeliversParts
<1>2. CandlesTyped'
  BY <1>0, <1>1 DEF CandlesTyped, Stays
<1>3. FewMessages'
  <2>1. CASE received' = received
    BY <1>0, <2>1 DEF FewMessages
  <2>2. CASE At(w, "send") /\ Arrives(w)
    <3>1. worker[w].at \in Delivering
      BY <2>2 DEF At, Delivering, Calling
    <3>2. Key(w) \in Keys
      BY <1>0, <3>1, KeyTyped
    <3>3. received[Key(w)] + 1 <= Attempts
      <4>1. received[Key(w)] \in Nat /\ worker[w].tries \in Nat
        BY <1>0, <3>2 DEF RowsTyped, Records
      <4>2. worker[w].tries < Attempts /\ received[Key(w)] <= worker[w].tries /\ Attempts \in Nat
        BY <1>0, <2>2, NotificationsAssumption DEF Claims
      <4> QED  BY <4>1, <4>2
    <3> QED  BY <1>0, <2>2, <3>2, <3>3 DEF FewMessages, Arrives, RowsTyped
  <2>3. received' = received \/ (At(w, "send") /\ Arrives(w))
    BY DEF Delivers, Analyses, ReadsSwitch, InsertsRow, send_telegram_message, Confirms, GivesUp, RecordsEvent, rows
  <2> QED  BY <2>1, <2>2, <2>3
<1> QED  BY <1>0, <1>1, <1>2, <1>3, UnlockedKeeps DEF TypeInv

LEMMA BreaksTyped ==
  ASSUME Inv, TypeInv, NEW w \in Workers, Breaks(w) PROVE TypeInv'
<1>0. CandlesTyped /\ LockIsHeld /\ FewMessages /\ NoOne \notin Workers
  BY NotificationsAssumption DEF TypeInv
<1>1. CandlesTyped' /\ FewMessages'
  BY <1>0 DEF Breaks, PastResultFails, PersistFails, ConfirmFails, NotificationFails, rows, memory,
              CandlesTyped, FewMessages
<1>2. CASE PastResultFails(w)
  <2>1. lock' = NoOne /\ worker'[w].at # "fetch" /\ lock = w
        /\ \A v \in Workers \ {w} : worker'[v] = worker[v]
    BY <1>0, <1>2, EndsParts DEF PastResultFails, LockIsHeld
  <2>2. LockIsHeld'
    BY <1>0, <2>1 DEF LockIsHeld, At
  <2> QED  BY <1>1, <2>2 DEF TypeInv
<1>3. CASE PersistFails(w) \/ NotificationFails(w) \/ ConfirmFails(w)
  <2>1. /\ lock' = lock /\ worker[w].at # "fetch"
        /\ Ends(w) \/ Returns(w) \/ Goes(w, "give_up")
    BY <1>3 DEF PersistFails, NotificationFails, ConfirmFails, At, memory
  <2>2. Unlocked(w)
    BY <2>1, EndsParts, GoesParts DEF Unlocked
  <2> QED  BY <1>0, <1>1, <2>2, UnlockedKeeps DEF TypeInv
<1> QED  BY <1>2, <1>3 DEF Breaks

LEMMA NotifyTyped == ASSUME Inv, TypeInv, [Next]_vars PROVE TypeInv'
<1>0. CandlesTyped /\ LockIsHeld /\ FewMessages /\ NoOne \notin Workers /\ RowsTyped
  BY NotificationsAssumption DEF TypeInv, Inv
<1>1. ASSUME NEW w \in Workers, NEW m \in Markets, Asks(w, m) PROVE TypeInv'
  <2>1. CandlesTyped' /\ FewMessages' /\ lock' = lock
    BY <1>0, <1>1 DEF Asks, rows, memory, CandlesTyped, FewMessages
  <2>2. Unlocked(w)
    BY <1>0, <1>1, <2>1 DEF Asks, At, Unlocked, Idle, RowsTyped
  <2> QED  BY <1>0, <2>1, <2>2, UnlockedKeeps DEF TypeInv
<1>2. ASSUME NEW w \in Workers, NEW h \in Hourly, BinanceCloses(w, h) PROVE TypeInv'
  <2>1. CandlesTyped' /\ FewMessages' /\ lock' = lock
    BY <1>0, <1>2 DEF BinanceCloses, memory, CandlesTyped, FewMessages, Candles
  <2>2. Unlocked(w)
    BY <1>0, <1>2, <2>1 DEF BinanceCloses, At, Unlocked, Idle, RowsTyped
  <2> QED  BY <1>0, <2>1, <2>2, UnlockedKeeps DEF TypeInv
<1>3. ASSUME NEW m \in Markets, ChainlinkCloses(m) PROVE TypeInv'
  <2>1. CandlesTyped' /\ FewMessages' /\ lock' = lock /\ worker' = worker
    BY <1>0, <1>3 DEF ChainlinkCloses, memory, CandlesTyped, FewMessages, Candles
  <2> QED  BY <1>0, <2>1 DEF TypeInv, LockIsHeld, At
<1>4. CASE set_telegram_enabled \/ UNCHANGED vars
  <2>1. CandlesTyped' /\ FewMessages' /\ lock' = lock /\ worker' = worker
    BY <1>0, <1>4 DEF set_telegram_enabled, vars, rows, memory, CandlesTyped, FewMessages
  <2> QED  BY <1>0, <2>1 DEF TypeInv, LockIsHeld, At
<1>5. CASE Restart
  <2>1. CandlesTyped' /\ FewMessages'
    BY <1>0, <1>5 DEF Restart, CandlesTyped, FewMessages
  <2>2. LockIsHeld'
    BY <1>0, <1>5 DEF Restart, LockIsHeld, At, Idle
  <2> QED  BY <2>1, <2>2 DEF TypeInv
<1> QED  BY <1>1, <1>2, <1>3, <1>4, <1>5, FinalisesTyped, DeliversTyped, BreaksTyped DEF Next

LEMMA NotifyStarts == ASSUME Init PROVE Inv /\ TypeInv
<1>1. TypeInv
  BY NotificationsAssumption DEF Init, TypeInv, CandlesTyped, LockIsHeld, FewMessages, At, Idle
<1> QED  BY <1>1, Init_Inv

LEMMA NotifyTypes == ASSUME Inv, TypeInv PROVE TypeOK
<1>0. CandlesTyped /\ LockIsHeld /\ FewMessages /\ RowsTyped /\ Attempts \in Nat
  BY NotificationsAssumption DEF TypeInv, Inv
<1>1. received \in [Keys -> 0 .. Attempts]
  BY <1>0 DEF RowsTyped, FewMessages
<1>2. row \in [Keys -> [status : {"none", "sent", "error", "skipped_disabled"}, sent_at : BOOLEAN]]
  BY <1>0 DEF RowsTyped, Statuses
<1>3. ASSUME NEW w \in Workers
      PROVE  /\ worker[w].of \in Candles \cup {NoOne} /\ worker[w].tries \in 0 .. Attempts
             /\ worker[w].at \in Calling => row[Key(w)].status # "none"
  <2>1. worker[w] \in Records /\ InHand(w) /\ Claims(w)
    BY DEF Inv, RowsTyped
  <2>2. worker[w].of \in Candles \cup {NoOne} /\ worker[w].tries \in Nat
    BY <2>1 DEF Records
  <2>3. worker[w].tries \in 0 .. Attempts
    BY <1>0, <2>1, <2>2 DEF InHand, Claims, At
  <2> QED  BY <2>1, <2>2, <2>3 DEF Claims
<1> QED  BY <1>0, <1>1, <1>2, <1>3 DEF TypeOK, CandlesTyped, LockIsHeld, RowsTyped, Calling

-----------------------------------------------------------------------------
(* Pages of a download *)

PS           == Pages!activity_page_size
PageCount(n) == Pages!offset_batch_page_count(n)

\* Page i when the activities 1 .. u are asked for.
Slice(s, u, i) == {a \in 1 .. u : u - i * s < a /\ a <= u - (i - 1) * s}

\* How many of l activities a page may have seen that asks up to second e: Tops are the numbers
\* a page of this batch may have seen.
Until(l, e) == {a \in 1 .. l : Seconds[a] <= e}
Tops(l, e)  == IF e = 0 THEN PagesListed .. l ELSE {u \in 0 .. l : 1 .. u = Until(l, e)}

LEMMA PageConstants ==
  /\ Seconds \in Seq(Nat \ {0, 1}) /\ DOMAIN Seconds = 1 .. Len(Seconds) /\ Len(Seconds) \in Nat
  /\ \A a \in DOMAIN Seconds : Seconds[a] \in Nat \ {0, 1}
  /\ \A a, b \in DOMAIN Seconds : a <= b => Seconds[a] <= Seconds[b]
  /\ PageSize \in Nat \ {0} /\ Parallel \in Nat \ {0} /\ MaxOffset \in Nat \ {0}
  /\ Limits \subseteq Nat \ {0} /\ PageFailures \in Nat /\ PagesListed \in DOMAIN Seconds
<1>1. Pages!ConstantsOK
  BY ModelConstants
<1>2. Seconds \in Seq(Nat \ {0, 1})
  BY <1>1 DEF Pages!ConstantsOK
<1>3. DOMAIN Seconds = 1 .. Len(Seconds) /\ Len(Seconds) \in Nat
  BY <1>2
<1>4. \A a \in DOMAIN Seconds : Seconds[a] \in Nat \ {0, 1}
  BY <1>2
<1> QED  BY <1>1, <1>2, <1>3, <1>4 DEF Pages!ConstantsOK

LEMMA MinTwo ==
  ASSUME NEW a \in Int, NEW b \in Int
  PROVE  Pages!Min({a, b}) \in {a, b} /\ Pages!Min({a, b}) <= a /\ Pages!Min({a, b}) <= b
<1>1. \E x \in {a, b} : \A y \in {a, b} : x <= y
  BY a <= b \/ b <= a
<1> QED  BY <1>1 DEF Pages!Min

LEMMA MinThree ==
  ASSUME NEW a \in Int, NEW b \in Int, NEW c \in Int
  PROVE  /\ Pages!Min({a, b, c}) \in {a, b, c}
         /\ Pages!Min({a, b, c}) <= a
<1>1. \E x \in {a, b, c} : \A y \in {a, b, c} : x <= y
  <2>1. CASE a <= b /\ a <= c
    BY <2>1
  <2>2. CASE b <= a /\ b <= c
    BY <2>2
  <2>3. CASE c <= a /\ c <= b
    BY <2>3
  <2> QED  BY <2>1, <2>2, <2>3
<1> QED  BY <1>1 DEF Pages!Min

LEMMA MaxTwo ==
  ASSUME NEW a \in Int, NEW b \in Int
  PROVE  Pages!Max({a, b}) \in {a, b} /\ Pages!Max({a, b}) >= a /\ Pages!Max({a, b}) >= b
<1>1. \E x \in {a, b} : \A y \in {a, b} : x >= y
  BY a <= b \/ b <= a
<1> QED  BY <1>1 DEF Pages!Max

LEMMA PageSizes == ASSUME limit \in Limits PROVE PS \in Nat \ {0}
<1>1. limit \in Nat \ {0} /\ PageSize \in Nat \ {0} /\ Parallel \in Nat \ {0} /\ MaxOffset \in Nat \ {0}
  BY PageConstants
<1>2. PICK q : q = MaxOffset \div Parallel
  OBVIOUS
<1>3. q \in Int
  BY <1>1, <1>2
<1>4. PICK x : x = Pages!Max({1, q})
  OBVIOUS
<1>5. x \in Int /\ x >= 1
  BY <1>3, <1>4, MaxTwo
<1>6. PICK y : y = Pages!Min({PageSize, x})
  OBVIOUS
<1>7. y \in {PageSize, x}
  BY <1>1, <1>5, <1>6, MinTwo
<1>8. y \in Nat \ {0}
  BY <1>1, <1>5, <1>7
<1>9. PS = IF limit <= PageSize THEN limit ELSE y
  BY <1>2, <1>4, <1>6 DEF PS, Pages!activity_page_size
<1> QED  BY <1>1, <1>8, <1>9

\* A batch has a page, and its last one is needed.
LEMMA PageCounts ==
  ASSUME limit \in Limits, NEW n \in Nat \ {0}
  PROVE  PageCount(n) \in Nat \ {0} /\ (PageCount(n) - 1) * PS < n
<1>1. PICK s : s = PS
  OBVIOUS
<1>2. s \in Nat \ {0} /\ Parallel \in Nat \ {0} /\ MaxOffset \in Nat \ {0}
  BY <1>1, PageSizes, PageConstants
<1>3. PICK q, r : q = (n + s - 1) \div s /\ r = (MaxOffset - 1) \div s
  OBVIOUS
<1>4. q \in Int /\ r \in Int /\ q * s <= n + s - 1 /\ r >= 0
  <2>1. PICK x, y : x = n + s - 1 /\ y = MaxOffset - 1
    OBVIOUS
  <2>2. x \in Nat /\ y \in Nat /\ q = x \div s /\ r = y \div s
    BY <1>2, <1>3, <2>1
  <2>3. q \in Nat /\ q * s <= x
    BY <1>2, <2>2, DivBounds
  <2>4. r \in Nat
    BY <1>2, <2>2, DivBounds
  <2>5. r >= 0 /\ r \in Int /\ q \in Int
    BY <2>3, <2>4
  <2>6. q * s <= n + s - 1
    BY ONLY <2>1, <2>3
  <2> QED  BY <2>5, <2>6
<1>5. PICK x : x = Pages!Max({1, q})
  OBVIOUS
<1>6. x \in {1, q} /\ x >= 1
  <2>1. q \in Int /\ 1 \in Int
    BY <1>4
  <2> QED  BY ONLY <1>5, <2>1, MaxTwo
<1>7. PICK c : c = PageCount(n)
  OBVIOUS
<1>8. c = Pages!Min({x, Parallel, r + 1})
  BY <1>1, <1>3, <1>5, <1>7 DEF PageCount, PS, Pages!offset_batch_page_count
<1>9. c \in {x, Parallel, r + 1} /\ c <= x
  BY <1>2, <1>4, <1>6, <1>8, MinThree
<1>10. c \in Nat \ {0}
  BY <1>2, <1>4, <1>6, <1>9
<1>11. (x - 1) * s < n
  <2>1. CASE x = 1
    <3>1. (x - 1) * s = 0
      BY <1>2, <2>1
    <3> QED  BY <3>1
  <2>2. CASE x = q
    <3>1. (q - 1) * s = q * s - s /\ q * s \in Int
      BY <1>2, <1>4
    <3> QED  BY <1>2, <1>4, <2>2, <3>1
  <2> QED  BY <1>6, <2>1, <2>2
<1>12. (c - 1) * s <= (x - 1) * s /\ (c - 1) * s \in Int /\ (x - 1) * s \in Int
  <2>1. c - 1 \in Nat /\ x - 1 \in Nat /\ c - 1 <= x - 1
    BY <1>4, <1>6, <1>9, <1>10
  <2> QED  BY <1>2, <2>1, TimesGrows
<1>13. (c - 1) * s < n
  BY <1>11, <1>12
<1> QED  BY <1>1, <1>7, <1>10, <1>13

LEMMA SameCount == \A S : Pages!Cardinality(S) = Cardinality(S)
BY DEF Pages!Cardinality, Cardinality

\* The newest activities are the ones with the greatest numbers.
LEMMA LatestOfFirst ==
  ASSUME NEW u \in Nat, NEW n \in Nat
  PROVE  Pages!Latest(n, 1 .. u) = {a \in 1 .. u : u - n < a}
<1>1. ASSUME NEW a \in 1 .. u PROVE Cardinality({b \in 1 .. u : b >= a}) <= n <=> u - n < a
  <2>0. a \in Int /\ 1 <= a /\ a <= u /\ u \in Int
    OBVIOUS
  <2>1. {b \in 1 .. u : b >= a} = a .. u
    BY <2>0
  <2>2. Cardinality(a .. u) = u - a + 1
    <3>1. Cardinality(a .. u) = IF a > u THEN 0 ELSE u - a + 1
      BY <2>0, FS_Interval
    <3> QED  BY <2>0, <3>1
  <2>3. Cardinality({b \in 1 .. u : b >= a}) = u - a + 1
    BY ONLY <2>1, <2>2
  <2>4. PICK k : k = Cardinality({b \in 1 .. u : b >= a})
    OBVIOUS
  <2>5. k = u - a + 1
    BY ONLY <2>3, <2>4
  <2>6. k <= n <=> u - n < a
    BY ONLY <2>0, <2>5, n \in Nat
  <2> QED  BY ONLY <2>4, <2>6
<1>2. Pages!Latest(n, 1 .. u) = {a \in 1 .. u : Cardinality({b \in 1 .. u : b >= a}) <= n}
  BY SameCount DEF Pages!Latest
<1>3. \A a : a \in Pages!Latest(n, 1 .. u) <=> a \in 1 .. u /\ Cardinality({b \in 1 .. u : b >= a}) <= n
  BY ONLY <1>2
<1>4. \A a : a \in Pages!Latest(n, 1 .. u) <=> a \in 1 .. u /\ u - n < a
  BY ONLY <1>1, <1>3, Zenon
<1> QED  BY ONLY <1>4, Zenon

LEMMA AskedPage ==
  ASSUME limit \in Limits, NEW i \in Nat \ {0}, NEW u \in Nat,
         {a \in 1 .. listed : end = 0 \/ Seconds[a] <= end} = 1 .. u
  PROVE  /\ Pages!fetch_activity_page(i).state = "answered"
         /\ Pages!fetch_activity_page(i).rows = Slice(PS, u, i)
<1>1. PICK s : s = PS
  OBVIOUS
<1>2. s \in Nat \ {0}
  BY <1>1, PageSizes
<1>3. PICK o : o = (i - 1) * s
  OBVIOUS
<1>4. o \in Nat /\ i * s = o + s
  <2>1. i - 1 \in Nat
    OBVIOUS
  <2>2. (i - 1) * s \in Nat
    BY <1>2, <2>1, TimesGrows
  <2>3. i * s = (i - 1) * s + s
    BY <1>2
  <2> QED  BY <1>3, <2>2, <2>3
<1>5. PICK after : after = (1 .. u) \ Pages!Latest(o, 1 .. u)
  OBVIOUS
<1>6. after = {a \in 1 .. u : a <= u - o}
  BY <1>4, <1>5, LatestOfFirst
<1>7. PICK v \in Nat : after = 1 .. v /\ v = IF o <= u THEN u - o ELSE 0
  <2>1. CASE o <= u
    BY <1>4, <1>6, <2>1
  <2>2. CASE o > u
    BY <1>4, <1>6, <2>2
  <2> QED  BY <1>4, <2>1, <2>2
<1>8. Pages!Latest(s, after) = {a \in 1 .. v : v - s < a}
  BY <1>2, <1>7, LatestOfFirst
<1>9. {a \in 1 .. v : v - s < a} = Slice(s, u, i)
  BY <1>1, <1>2, <1>3, <1>4, <1>7 DEF Slice
<1>10. Pages!fetch_activity_page(i) = [state |-> "answered", rows |-> Pages!Latest(s, after)]
  BY <1>1, <1>3, <1>5 DEF Pages!fetch_activity_page, PS
<1> QED  BY <1>1, <1>8, <1>9, <1>10

LEMMA SliceParts ==
  ASSUME NEW s \in Nat \ {0}, NEW i \in Nat \ {0}, NEW u \in Nat
  PROVE  /\ Slice(s, u, i) \subseteq 1 .. u /\ IsFiniteSet(Slice(s, u, i))
         /\ Cardinality(Slice(s, u, i)) < s => u < i * s
<1>2. s \in Nat \ {0}
  OBVIOUS
<1>3. PICK o : o = (i - 1) * s
  OBVIOUS
<1>4. o \in Nat /\ i * s = o + s
  <2>1. i - 1 \in Nat
    OBVIOUS
  <2>2. (i - 1) * s \in Nat
    BY <1>2, <2>1, TimesGrows
  <2>3. i * s = (i - 1) * s + s
    BY <1>2
  <2> QED  BY <1>3, <2>2, <2>3
<1>5. Slice(s, u, i) = {a \in 1 .. u : u - (o + s) < a /\ a <= u - o}
  BY <1>3, <1>4 DEF Slice
<1>6. IsFiniteSet(Slice(s, u, i))
  <2>1. IsFiniteSet(1 .. u)
    BY FS_Interval
  <2> QED  BY <1>5, <2>1, FS_Subset
<1>7. CASE u >= i * s
  <2>1. PICK x, y : x = u - (o + s) + 1 /\ y = u - o
    OBVIOUS
  <2>2. x \in Int /\ y \in Int /\ 1 <= x /\ y <= u /\ x <= y /\ y - x + 1 = s
    BY <1>2, <1>4, <1>7, <2>1
  <2>3. Slice(s, u, i) = x .. y
    <3>1. \A a \in Int : u - (o + s) < a <=> x <= a
      BY <1>2, <1>4, <2>1
    <3>2. {a \in 1 .. u : u - (o + s) < a /\ a <= u - o} = x .. y
      BY <2>1, <2>2, <3>1
    <3> QED  BY <1>5, <3>2
  <2>4. Cardinality(x .. y) = s
    <3>1. Cardinality(x .. y) = IF x > y THEN 0 ELSE y - x + 1
      BY <2>2, FS_Interval
    <3> QED  BY <2>2, <3>1
  <2>5. ~(Cardinality(Slice(s, u, i)) < s)
    BY <1>2, <2>3, <2>4
  <2> QED  BY <1>5, <1>6, <2>5
<1>8. CASE ~(u >= i * s)
  <2>1. PICK e : e = i * s
    OBVIOUS
  <2>2. e = o + s /\ e = i * s
    BY <1>4, <2>1
  <2>3. u < e
    BY <1>2, <1>4, <1>8, <2>1, <2>2
  <2> QED  BY <1>5, <1>6, <2>2, <2>3
<1> QED  BY <1>7, <1>8

\* What may be asked for is the first activities.
LEMMA FirstSeconds ==
  ASSUME NEW l \in DOMAIN Seconds, NEW e \in Nat
  PROVE  \E u \in 0 .. l : Until(l, e) = 1 .. u
<1>1. l \in Nat /\ \A a \in 1 .. l : a \in DOMAIN Seconds /\ Seconds[a] \in Nat
  BY PageConstants
<1>2. PICK B : B = {a \in 1 .. l : ~(Seconds[a] <= e)}
  OBVIOUS
<1>3. CASE B = {}
  <2>1. Until(l, e) = 1 .. l
    BY <1>2, <1>3 DEF Until
  <2> QED  BY <1>1, <2>1
<1>4. CASE B # {}
  <2>1. PICK b \in B : \A y \in B : b <= y
    BY <1>2, <1>4, NatHasLeast
  <2>2. b \in 1 .. l /\ ~(Seconds[b] <= e)
    BY <1>2, <2>1
  <2>3. ASSUME NEW a \in 1 .. l PROVE Seconds[a] <= e <=> a <= b - 1
    <3>1. a < b => a \notin B
      <4>1. a \in Int /\ b \in Int
        BY <1>1, <2>2
      <4>2. a \in B => b <= a
        BY ONLY <2>1
      <4> QED  BY ONLY <4>1, <4>2
    <3>2. b <= a => Seconds[b] <= Seconds[a]
      BY <1>1, <2>2, PageConstants
    <3>3. Seconds[a] \in Nat /\ Seconds[b] \in Nat
      BY <1>1, <2>2
    <3> QED  BY <1>2, <2>2, <3>1, <3>2, <3>3
  <2>4. Until(l, e) = 1 .. (b - 1)
    BY <1>1, <2>2, <2>3 DEF Until
  <2>5. b - 1 \in 0 .. l
    BY <1>1, <2>2
  <2> QED  BY <2>4, <2>5
<1> QED  BY <1>3, <1>4

-----------------------------------------------------------------------------
(* Boundaries of pages *)

\* An activity between the oldest row and the newest one that no page has lies at a boundary:
\* the later page has seen more activities.
LEMMA GapAt ==
  ASSUME NEW s \in Nat \ {0}, NEW A, A \subseteq Nat \ {0}, 1 \in A, \A i \in A : i = 1 \/ i - 1 \in A,
         NEW U, \A i \in A : U[i] \in Nat, NEW m \in A, NEW a \in Nat \ {0}, a <= U[1], U[m] - m * s < a,
         \A i \in A : a \notin Slice(s, U[i], i)
  PROVE  \E i \in A : i - 1 \in A /\ U[i] - (i - 1) * s < a /\ a <= U[i - 1] - (i - 1) * s
<1>1. PICK o : /\ \A i \in Int : o[i] \in Int /\ o[i] = i * s
               /\ \A i \in Int : o[i - 1] = o[i] - s /\ (i - 1) * s = o[i] - s
               /\ \A i, j \in Int : i <= j => o[i] <= o[j]
               /\ o[0] = 0
  BY Offsets
<1>2. PICK J : J = {i \in A : U[i] - o[i] < a}
  OBVIOUS
<1>3. J \in SUBSET Nat /\ m \in J
  <2>1. m \in Int /\ o[m] = m * s
    BY <1>1
  <2>2. U[m] - o[m] < a
    BY <2>1
  <2> QED  BY <1>2, <2>2
<1>4. PICK j \in J : \A y \in J : j <= y
  BY <1>3, NatHasLeast
<1>5. j \in A /\ j \in Nat \ {0} /\ j - 1 \in Int /\ U[j] \in Nat /\ U[j] - o[j] < a
  BY <1>2, <1>4
<1>6. o[j - 1] = o[j] - s /\ (j - 1) * s = o[j - 1] /\ j * s = o[j] /\ o[j] \in Int /\ o[j - 1] \in Int
  BY <1>1, <1>5
<1>7. o[j - 1] >= 0
  <2>1. PICK z : z = 0
    OBVIOUS
  <2>2. z <= j - 1 /\ z \in Int /\ o[z] = 0
    BY <1>1, <1>5, <2>1
  <2>3. o[z] <= o[j - 1]
    BY <1>1, <1>5, <2>2
  <2> QED  BY <1>6, <2>2, <2>3
<1>8. U[j] - o[j - 1] < a
  <2>1. SUFFICES ASSUME a <= U[j] - o[j - 1] PROVE FALSE
    BY <1>5, <1>6
  <2>2. a \in 1 .. U[j]
    BY <1>5, <1>6, <1>7, <2>1
  <2>3. a \in Slice(s, U[j], j)
    BY <1>5, <1>6, <2>1, <2>2 DEF Slice
  <2> QED  BY <1>5, <2>3
<1>9. j # 1
  <2>1. SUFFICES ASSUME j = 1 PROVE FALSE
    OBVIOUS
  <2>2. o[j - 1] = 0
    BY <1>1, <2>1
  <2> QED  BY <1>5, <1>8, <2>1, <2>2
<1>10. j - 1 \in A
  BY <1>5, <1>9
<1>11. a <= U[j - 1] - o[j - 1]
  <2>1. j - 1 \notin J
    BY <1>3, <1>4, <1>5
  <2> QED  BY <1>2, <1>6, <1>10, <2>1
<1> QED  BY <1>5, <1>6, <1>8, <1>10, <1>11

\* There are as many of them as activities came meanwhile, at each boundary.
LEMMA GapsAreFew ==
  ASSUME NEW s \in Nat \ {0}, NEW c \in Nat \ {0}, NEW A, A \subseteq 1 .. c, 1 \in A,
         \A i \in A : i = 1 \/ i - 1 \in A,
         NEW lo \in Nat, NEW hi \in Nat, lo <= hi, NEW U, \A i \in A : U[i] \in lo .. hi,
         NEW m \in A, NEW G,
         \A a \in G : /\ a \in Nat \ {0} /\ a <= U[1] /\ U[m] - m * s < a
                      /\ \A i \in A : a \notin Slice(s, U[i], i)
  PROVE  IsFiniteSet(G) /\ Cardinality(G) <= (hi - lo) * (c - 1)
<1>1. PICK o : /\ \A i \in Int : o[i] \in Int /\ o[i] = i * s
               /\ \A i \in Int : o[i - 1] = o[i] - s /\ (i - 1) * s = o[i] - s
               /\ \A i, j \in Int : i <= j => o[i] <= o[j]
               /\ o[0] = 0
  BY Offsets
<1>2. PICK e : e = hi - lo
  OBVIOUS
<1>3. PICK b : b = c - 1
  OBVIOUS
<1>4. e \in Nat /\ b \in Nat
  BY <1>2, <1>3
<1>5. PICK D : D = (1 .. b) \X (1 .. e)
  OBVIOUS
<1>6. IsFiniteSet(D) /\ Cardinality(D) = b * e
  <2>1. IsFiniteSet(1 .. b) /\ Cardinality(1 .. b) = b /\ IsFiniteSet(1 .. e) /\ Cardinality(1 .. e) = e
    <3>1. 1 \in Int /\ b \in Int /\ e \in Int
      BY <1>4
    <3>2. IsFiniteSet(1 .. b) /\ IsFiniteSet(1 .. e)
      BY <3>1, FS_Interval
    <3>3. Cardinality(1 .. b) = IF 1 > b THEN 0 ELSE b - 1 + 1
      BY <3>1, FS_Interval
    <3>4. Cardinality(1 .. e) = IF 1 > e THEN 0 ELSE e - 1 + 1
      BY <3>1, FS_Interval
    <3> QED  BY <1>4, <3>2, <3>3, <3>4
  <2>2. PICK I, J : I = 1 .. b /\ J = 1 .. e
    OBVIOUS
  <2>3. IsFiniteSet(I) /\ IsFiniteSet(J) /\ Cardinality(I) = b /\ Cardinality(J) = e
    BY ONLY <2>1, <2>2
  <2>4. IsFiniteSet(I \X J) /\ Cardinality(I \X J) = Cardinality(I) * Cardinality(J)
    BY ONLY <2>3, FS_Product
  <2> QED  BY ONLY <1>5, <2>2, <2>3, <2>4
<1>7. PICK f : f = [x \in D |-> (lo - o[x[1]]) + x[2]]
  OBVIOUS
<1>8. ASSUME NEW a \in G PROVE \E x \in D : f[x] = a
  <2>1. a \in Nat \ {0} /\ a <= U[1] /\ U[m] - m * s < a /\ \A i \in A : a \notin Slice(s, U[i], i)
    OBVIOUS
  <2>2. A \subseteq Nat \ {0} /\ \A i \in A : U[i] \in Nat
    OBVIOUS
  <2>3. PICK i \in A : i - 1 \in A /\ U[i] - (i - 1) * s < a /\ a <= U[i - 1] - (i - 1) * s
    BY ZenonT(60), <2>1, <2>2, GapAt
  <2>4. i - 1 \in 1 .. b /\ (i - 1) * s = o[i - 1] /\ o[i - 1] \in Int
    <3>1. i \in 1 .. c /\ i - 1 \in 1 .. c
      BY <2>3
    <3>2. i - 1 \in 1 .. b /\ i - 1 \in Int
      BY <1>3, <3>1
    <3> QED  BY <1>1, <3>2
  <2>5. PICK y : y = a - (lo - o[i - 1])
    OBVIOUS
  <2>6. y \in 1 .. e /\ (lo - o[i - 1]) + y = a
    <3>1. U[i] \in Int /\ lo <= U[i] /\ U[i - 1] \in Int /\ U[i - 1] <= hi
      BY <2>3
    <3>2. U[i] - o[i - 1] < a /\ a <= U[i - 1] - o[i - 1]
      BY <2>3, <2>4
    <3> QED  BY <1>2, <2>1, <2>4, <2>5, <3>1, <3>2
  <2>7. PICK x : x = <<i - 1, y>>
    OBVIOUS
  <2>8. x \in D /\ x[1] = i - 1 /\ x[2] = y
    BY <1>5, <2>4, <2>6, <2>7
  <2> QED  BY <1>7, <2>6, <2>8
<1>9. f = [x \in D |-> f[x]]
  BY <1>7
<1>10. IsFiniteSet(G) /\ Cardinality(G) <= Cardinality(D)
  BY ONLY <1>6, <1>8, <1>9, HitsAreFew
<1>11. b * e = (hi - lo) * (c - 1)
  BY <1>2, <1>3, <1>4
<1> QED  BY <1>6, <1>10, <1>11

\* The rows of k pages are at most k times a page.
LEMMA RowsAreFew ==
  ASSUME NEW s \in Nat \ {0}, NEW k \in Nat, NEW U, NEW P,
         \A x \in P : x = <<x[1], x[2]>> /\ x[1] \in 1 .. k /\ U[x[1]] \in Nat /\ x[2] \in Slice(s, U[x[1]], x[1])
  PROVE  IsFiniteSet(P) /\ Cardinality(P) <= k * s
<1>1. PICK o : /\ \A i \in Int : o[i] \in Int /\ o[i] = i * s
               /\ \A i \in Int : o[i - 1] = o[i] - s /\ (i - 1) * s = o[i] - s
               /\ \A i, j \in Int : i <= j => o[i] <= o[j]
               /\ o[0] = 0
  BY Offsets
<1>2. PICK D : D = (1 .. k) \X (1 .. s)
  OBVIOUS
<1>3. IsFiniteSet(D) /\ Cardinality(D) = k * s
  <2>1. 1 \in Int /\ k \in Int /\ s \in Int
    OBVIOUS
  <2>2. IsFiniteSet(1 .. k) /\ IsFiniteSet(1 .. s)
    BY <2>1, FS_Interval
  <2>3. Cardinality(1 .. k) = IF 1 > k THEN 0 ELSE k - 1 + 1
    BY <2>1, FS_Interval
  <2>4. Cardinality(1 .. s) = IF 1 > s THEN 0 ELSE s - 1 + 1
    BY <2>1, FS_Interval
  <2>5. Cardinality(1 .. k) = k /\ Cardinality(1 .. s) = s
    BY <2>1, <2>3, <2>4
  <2>6. IsFiniteSet(D) /\ Cardinality(D) = Cardinality(1 .. k) * Cardinality(1 .. s)
    BY <1>2, <2>2, FS_Product
  <2> QED  BY ONLY <2>5, <2>6
<1>4. PICK f : f = [x \in D |-> <<x[1], (U[x[1]] - o[x[1]]) + x[2]>>]
  OBVIOUS
<1>5. ASSUME NEW z \in P PROVE \E x \in D : f[x] = z
  <2>1. PICK i, a : i = z[1] /\ a = z[2]
    OBVIOUS
  <2>2. z = <<i, a>> /\ i \in 1 .. k /\ U[i] \in Nat /\ a \in Slice(s, U[i], i)
    BY <2>1
  <2>3. i \in Int /\ U[i] \in Nat /\ o[i] \in Int /\ i * s = o[i] /\ (i - 1) * s = o[i] - s
    BY <1>1, <2>2
  <2>4. a \in Int /\ U[i] - o[i] < a /\ a <= U[i] - (o[i] - s)
    BY <2>2, <2>3 DEF Slice
  <2>5. PICK y : y = a - (U[i] - o[i])
    OBVIOUS
  <2>6. y \in 1 .. s /\ (U[i] - o[i]) + y = a
    BY <2>3, <2>4, <2>5
  <2>7. PICK x : x = <<i, y>>
    OBVIOUS
  <2>8. x \in D /\ x[1] = i /\ x[2] = y
    BY <1>2, <2>2, <2>6, <2>7
  <2>9. f[x] = <<i, (U[i] - o[i]) + y>>
    BY <1>4, <2>8
  <2> QED  BY <2>2, <2>6, <2>8, <2>9
<1>6. f = [x \in D |-> f[x]]
  BY <1>4
<1>7. IsFiniteSet(P) /\ Cardinality(P) <= Cardinality(D)
  BY ONLY <1>3, <1>5, <1>6, HitsAreFew
<1> QED  BY <1>3, <1>7

-----------------------------------------------------------------------------
(* The invariant of a download *)

\* A page of a batch that asks up to second e when l activities exist.
PageOK(r, s, i, l, e) ==
  \/ r = Pages!Asked \/ r = Pages!Failed
  \/ r.state = "answered" /\ \E u \in Tops(l, e) : r.rows = Slice(s, u, i)

\* Old activities that no later batch will ask for, and those that a download misses.
Lost(k, e, c)   == {a \in 1 .. PagesListed : a \notin k /\ Seconds[a] > e /\ Seconds[a] \notin c}
Absent(n, k, c) == {a \in 1 .. PagesListed : PagesListed - n < a /\ a \notin k /\ Seconds[a] \notin c}

PagesTyped ==
  /\ listed \in DOMAIN Seconds /\ PagesListed <= listed /\ limit \in Limits
  /\ pc \in {"ask", "wait", "done", "failed"} /\ end \in Nat /\ pageFails \in 0 .. PageFailures
  /\ saved \subseteq 1 .. listed /\ Cardinality(saved) <= limit
  /\ pc \in {"ask", "wait"} => Cardinality(saved) < limit
  /\ DOMAIN pages = IF pc = "wait" THEN 1 .. PageCount(limit - Cardinality(saved)) ELSE {}

Answers == \A i \in DOMAIN pages : PageOK(pages[i], PS, i, listed, end)

\* What was handed on is above the seconds that are still to be asked for, and so are the losses,
\* which are few.
Going ==
  pc \in {"ask", "wait"} =>
    /\ end = 0 => saved = {} /\ cuts = {}
    /\ end # 0 => /\ Seconds[listed] > end /\ \A a \in saved : Seconds[a] > end
                  /\ Cardinality(Lost(saved, end, cuts)) <= (listed - PagesListed) * (PageCount(limit) - 1)

Whole == pc = "done" => Cardinality(Absent(limit, saved, cuts)) <= (listed - PagesListed) * PageCount(limit)

PagesInv == PagesTyped /\ Answers /\ Going /\ Whole

-----------------------------------------------------------------------------
(* What a batch knows *)

\* The pages A that were answered in a row; page i has seen U[i] activities.
BatchOf(A, U, lo, hi) ==
  /\ A \subseteq 1 .. PageCount(limit - Cardinality(saved)) /\ 1 \in A
  /\ \A i \in A : i = 1 \/ i - 1 \in A
  /\ lo \in Nat /\ hi \in Nat /\ lo <= hi /\ hi <= listed
  /\ \A i \in A : U[i] \in lo .. hi /\ pages[i].rows = Slice(PS, U[i], i)
  /\ IF end = 0 THEN lo = PagesListed /\ hi = listed ELSE lo = hi /\ 1 .. lo = Until(listed, end)
  /\ A \subseteq Pages!fetch_offset_page_batch
  /\ \A i \in Pages!fetch_offset_page_batch : i \in A \/ pages[i].rows = {}
  /\ Pages!reached_end => \E i \in A : U[i] < i * PS

LEMMA BatchIsKnown ==
  ASSUME PagesTyped, Answers, pc = "wait", \A i \in DOMAIN pages : pages[i] # Pages!Asked,
         pages[1].state # "failed"
  PROVE  \E A, U, lo, hi : BatchOf(A, U, lo, hi)
<1>1. PICK s : s = PS
  OBVIOUS
<1>2. s \in Nat \ {0}
  BY <1>1, PageSizes DEF PagesTyped
<1>3. PICK c : c = PageCount(limit - Cardinality(saved))
  OBVIOUS
<1>4. c \in Nat \ {0} /\ DOMAIN pages = 1 .. c
  <2>1. limit - Cardinality(saved) \in Nat \ {0}
    <3>1. limit \in Nat /\ Cardinality(saved) < limit
      BY PageConstants DEF PagesTyped
    <3>2. Cardinality(saved) \in Nat
      <4>1. IsFiniteSet(1 .. listed)
        <5>1. listed \in Int
          BY PageConstants DEF PagesTyped
        <5> QED  BY <5>1, FS_Interval
      <4>2. IsFiniteSet(saved)
        BY <4>1, FS_Subset DEF PagesTyped
      <4> QED  BY <4>2, FS_CardinalityType
    <3> QED  BY <3>1, <3>2
  <2>2. limit \in Limits
    BY DEF PagesTyped
  <2> QED  BY <1>3, <2>1, <2>2, PageCounts DEF PagesTyped
<1>5. ASSUME NEW i \in 1 .. c PROVE \/ pages[i].state = "failed" /\ pages[i].rows = {}
                                    \/ /\ pages[i].state = "answered"
                                       /\ \E u \in Tops(listed, end) : pages[i].rows = Slice(s, u, i)
  <2>1. PageOK(pages[i], s, i, listed, end) /\ pages[i] # Pages!Asked
    BY <1>1, <1>4 DEF Answers
  <2>2. CASE pages[i] = Pages!Failed
    BY <2>2 DEF Pages!Failed
  <2> QED  BY <2>1, <2>2 DEF PageOK
<1>6. PICK B : B = Pages!fetch_offset_page_batch
  OBVIOUS
<1>7. B = {i \in 1 .. c : \A j \in 1 .. i - 1 : ~Pages!Stops(j)}
  BY <1>4, <1>6 DEF Pages!fetch_offset_page_batch
<1>8. PICK A : A = {i \in B : pages[i].state = "answered"}
  OBVIOUS
<1>9. A \subseteq 1 .. c /\ A \subseteq B /\ 1 \in A
  <2>1. 1 \in B
    BY <1>4, <1>7
  <2>2. pages[1].state = "answered"
    BY <1>4, <1>5
  <2> QED  BY <1>7, <1>8, <2>1, <2>2
<1>10. \A i \in B : i \in A \/ pages[i].rows = {}
  BY <1>5, <1>7, <1>8
<1>11. ASSUME NEW i \in A PROVE i = 1 \/ i - 1 \in A
  <2> SUFFICES ASSUME i # 1 PROVE i - 1 \in A
    OBVIOUS
  <2>1. i \in 1 .. c /\ i - 1 \in 1 .. c /\ \A j \in 1 .. i - 1 : ~Pages!Stops(j)
    BY <1>7, <1>9, <1>4
  <2>2. i - 1 \in B
    <3>1. \A j \in 1 .. (i - 1) - 1 : j \in 1 .. i - 1
      BY <2>1
    <3> QED  BY <1>7, <2>1, <3>1
  <2>3. ~Pages!Stops(i - 1)
    BY <2>1
  <2>4. pages[i - 1].state # "failed"
    BY <2>3 DEF Pages!Stops
  <2> QED  BY <1>5, <1>8, <2>1, <2>2, <2>4
<1>12. PICK U : U = [i \in A |-> CHOOSE u \in Tops(listed, end) : pages[i].rows = Slice(s, u, i)]
  OBVIOUS
<1>13. \A i \in A : U[i] \in Tops(listed, end) /\ pages[i].rows = Slice(s, U[i], i)
  <2>1. \A i \in A : \E u \in Tops(listed, end) : pages[i].rows = Slice(s, u, i)
    BY <1>5, <1>8, <1>9
  <2> QED  BY <1>12, <2>1
<1>14. listed \in Nat /\ PagesListed \in Nat /\ PagesListed <= listed /\ end \in Nat /\ listed \in DOMAIN Seconds
  BY PageConstants DEF PagesTyped
<1>15. PICK lo, hi : /\ lo \in Nat /\ hi \in Nat /\ lo <= hi /\ hi <= listed
                     /\ \A i \in A : U[i] \in lo .. hi
                     /\ IF end = 0 THEN lo = PagesListed /\ hi = listed
                        ELSE lo = hi /\ 1 .. lo = Until(listed, end)
  <2>1. CASE end = 0
    <3>1. \A i \in A : U[i] \in PagesListed .. listed
      BY <1>13, <2>1 DEF Tops
    <3> QED  BY <1>14, <2>1, <3>1
  <2>2. CASE end # 0
    <3>1. PICK u \in 0 .. listed : Until(listed, end) = 1 .. u
      BY <1>14, FirstSeconds
    <3>2. ASSUME NEW v \in Tops(listed, end) PROVE v = u
      <4>1. v \in 0 .. listed /\ 1 .. v = 1 .. u
        BY <2>2, <3>1 DEF Tops
      <4>2. v < u => u \in 1 .. u /\ u \notin 1 .. v
        BY <1>14, <4>1
      <4>3. u < v => v \in 1 .. v /\ v \notin 1 .. u
        BY <1>14, <4>1
      <4> QED  BY <1>14, <4>1, <4>2, <4>3
    <3>3. \A i \in A : U[i] = u
      BY <1>13, <3>2
    <3>4. \A i \in A : U[i] \in u .. u
      BY <1>14, <3>3
    <3> QED  BY <1>14, <2>2, <3>1, <3>4
  <2> QED  BY <2>1, <2>2
<1>16. ASSUME Pages!reached_end PROVE \E i \in A : U[i] < i * s
  <2>1. PICK i \in B : pages[i].state = "answered" /\ Pages!Stops(i)
    BY <1>6, <1>16 DEF Pages!reached_end
  <2>2. i \in A /\ i \in Nat \ {0} /\ U[i] \in Nat
    BY <1>4, <1>8, <1>9, <1>15, <2>1
  <2>3. Cardinality(pages[i].rows) < s
    BY <1>1, <2>1, SameCount DEF Pages!Stops, PS
  <2>4. Cardinality(Slice(s, U[i], i)) < s
    BY <1>13, <2>2, <2>3
  <2>5. U[i] < i * s
    BY ONLY <1>2, <2>2, <2>4, SliceParts
  <2> QED  BY <2>2, <2>5
<1> QED  BY <1>1, <1>3, <1>6, <1>9, <1>10, <1>11, <1>13, <1>15, <1>16 DEF BatchOf

\* The rows of the batch are those of the answered pages.
LEMMA BatchRows ==
  ASSUME NEW A, NEW U, NEW lo, NEW hi, BatchOf(A, U, lo, hi)
  PROVE  \A a : a \in Pages!Rows <=> \E i \in A : a \in Slice(PS, U[i], i)
<1>1. \A i \in A : pages[i].rows = Slice(PS, U[i], i) /\ i \in Pages!fetch_offset_page_batch
  BY DEF BatchOf
<1>2. \A i \in Pages!fetch_offset_page_batch : i \in A \/ pages[i].rows = {}
  BY DEF BatchOf
<1>3. \A a : a \in Pages!Rows <=> \E i \in Pages!fetch_offset_page_batch : a \in pages[i].rows
  BY DEF Pages!Rows
<1> QED  BY ONLY <1>1, <1>2, <1>3

LEMMA SavedCount ==
  ASSUME PagesTyped
  PROVE  /\ listed \in Nat \ {0} /\ PagesListed \in Nat \ {0} /\ limit \in Nat \ {0}
         /\ IsFiniteSet(saved) /\ Cardinality(saved) \in Nat /\ Cardinality(saved) <= limit
         /\ pc \in {"ask", "wait"} => limit - Cardinality(saved) \in Nat \ {0}
<1>1. listed \in Nat \ {0} /\ PagesListed \in Nat \ {0} /\ limit \in Nat \ {0}
  <2>1. listed \in 1 .. Len(Seconds) /\ PagesListed \in 1 .. Len(Seconds) /\ Len(Seconds) \in Nat
    BY PageConstants DEF PagesTyped
  <2>2. limit \in Nat \ {0}
    BY PageConstants DEF PagesTyped
  <2> QED  BY <2>1, <2>2
<1>2. IsFiniteSet(saved) /\ Cardinality(saved) \in Nat
  <2>1. IsFiniteSet(1 .. listed)
    <3>1. listed \in Int /\ 1 \in Int
      BY <1>1
    <3> QED  BY <3>1, FS_Interval
  <2>2. IsFiniteSet(saved)
    BY <2>1, FS_Subset DEF PagesTyped
  <2> QED  BY <2>2, FS_CardinalityType
<1>3. Cardinality(saved) <= limit /\ (pc \in {"ask", "wait"} => Cardinality(saved) < limit)
  BY DEF PagesTyped
<1> QED  BY <1>1, <1>2, <1>3

\* The numbers of a batch.
LEMMA BatchNumbers ==
  ASSUME PagesTyped, pc = "wait", NEW A, NEW U, NEW lo, NEW hi, BatchOf(A, U, lo, hi)
  PROVE  /\ PS \in Nat \ {0}
         /\ PageCount(limit - Cardinality(saved)) \in Nat \ {0}
         /\ lo \in Nat /\ hi \in Nat /\ lo <= hi /\ hi <= listed
         /\ A \subseteq Nat \ {0} /\ A \subseteq 1 .. PageCount(limit - Cardinality(saved)) /\ 1 \in A
         /\ \A i \in A : U[i] \in lo .. hi
         /\ \A i \in A : i = 1 \/ i - 1 \in A
         /\ Pages!Rows \subseteq 1 .. listed
<1>1. PS \in Nat \ {0}
  BY PageSizes DEF PagesTyped
<1>2. PICK c : c = PageCount(limit - Cardinality(saved))
  OBVIOUS
<1>3. c \in Nat \ {0}
  <2>1. limit - Cardinality(saved) \in Nat \ {0} /\ limit \in Limits
    BY SavedCount DEF PagesTyped
  <2> QED  BY <1>2, <2>1, PageCounts
<1>4. /\ lo \in Nat /\ hi \in Nat /\ lo <= hi /\ hi <= listed /\ A \subseteq 1 .. c /\ 1 \in A
      /\ \A i \in A : U[i] \in lo .. hi
      /\ \A i \in A : i = 1 \/ i - 1 \in A
  BY <1>2 DEF BatchOf
<1>5. A \subseteq Nat \ {0}
  BY <1>3, <1>4
<1>6. Pages!Rows \subseteq 1 .. listed
  <2> SUFFICES ASSUME NEW a \in Pages!Rows PROVE a \in 1 .. listed
    OBVIOUS
  <2>1. PICK i \in A : a \in Slice(PS, U[i], i)
    BY BatchRows
  <2>2. a \in 1 .. U[i]
    BY <2>1 DEF Slice
  <2>3. U[i] \in Nat /\ U[i] <= listed /\ listed \in Nat
    BY <1>4, SavedCount
  <2> QED  BY <2>2, <2>3
<1> QED  BY <1>1, <1>2, <1>3, <1>4, <1>5, <1>6

\* The first page that has a row.
LEMMA PageOfRow ==
  ASSUME PagesTyped, pc = "wait", NEW A, NEW U, NEW lo, NEW hi, BatchOf(A, U, lo, hi), NEW a \in Pages!Rows
  PROVE  /\ Pages!PageOf(a) \in A /\ a \in Slice(PS, U[Pages!PageOf(a)], Pages!PageOf(a))
         /\ \A i \in A : a \in Slice(PS, U[i], i) => Pages!PageOf(a) <= i
<1>1. PICK S : S = {i \in Pages!fetch_offset_page_batch : a \in pages[i].rows}
  OBVIOUS
<1>2. \A i : i \in S <=> i \in A /\ a \in Slice(PS, U[i], i)
  <2>1. \A i \in A : pages[i].rows = Slice(PS, U[i], i) /\ i \in Pages!fetch_offset_page_batch
    BY DEF BatchOf
  <2>2. \A i \in Pages!fetch_offset_page_batch : i \in A \/ pages[i].rows = {}
    BY DEF BatchOf
  <2> QED  BY ONLY <1>1, <2>1, <2>2
<1>3. S \in SUBSET Nat /\ S # {}
  <2>1. A \subseteq Nat
    BY BatchNumbers
  <2>2. \E i \in A : a \in Slice(PS, U[i], i)
    BY BatchRows
  <2> QED  BY ONLY <1>2, <2>1, <2>2
<1>4. \E x \in S : \A y \in S : x <= y
  BY <1>3, NatHasLeast
<1>5. PICK x : x = Pages!PageOf(a)
  OBVIOUS
<1>6. x = CHOOSE z \in S : \A y \in S : z <= y
  BY <1>1, <1>5 DEF Pages!PageOf, Pages!Min
<1>7. x \in S /\ \A y \in S : x <= y
  BY ONLY <1>4, <1>6
<1> QED  BY ONLY <1>2, <1>5, <1>7

\* The new rows that are kept: all, or as many as were wanted, from the first one on.
LEMMA BatchKeeps ==
  ASSUME PagesTyped, pc = "wait", NEW A, NEW U, NEW lo, NEW hi, BatchOf(A, U, lo, hi)
  PROVE  /\ Pages!normalize_activity_batch \subseteq Pages!Rows \ saved
         /\ IsFiniteSet(Pages!normalize_activity_batch)
         /\ Cardinality(Pages!normalize_activity_batch) <= limit - Cardinality(saved)
         /\ \/ Pages!normalize_activity_batch = Pages!Rows \ saved
            \/ limit - Cardinality(saved) <= Cardinality(Pages!normalize_activity_batch)
         /\ \A a \in Pages!normalize_activity_batch, b \in Pages!Rows \ saved :
              Pages!Before(b, a) => b \in Pages!normalize_activity_batch
<1>1. PICK n, S, T : n = limit - Cardinality(saved) /\ S = Pages!Rows \ saved /\ T = Pages!normalize_activity_batch
  OBVIOUS
<1>2. PICK R : R = {x \in S \X S : Pages!Before(x[1], x[2])}
  OBVIOUS
<1>3. \A a, b \in S : <<b, a>> \in R <=> Pages!Before(b, a)
  BY ONLY <1>2
<1>4. PICK V : V = [a \in S |-> {b \in S : Pages!Before(b, a)}]
  OBVIOUS
<1>17. \A a \in S : \A b : b \in V[a] <=> b \in S /\ <<b, a>> \in R
  BY ONLY <1>3, <1>4
<1>5. \A a : a \in T <=> a \in S /\ Cardinality(V[a]) < n
  <2>1. T = {a \in S : Pages!Cardinality({b \in S : Pages!Before(b, a)}) < limit - Pages!Cardinality(saved)}
    BY <1>1 DEF Pages!normalize_activity_batch
  <2>2. \A a : a \in T <=> a \in S /\ Cardinality({b \in S : Pages!Before(b, a)}) < n
    BY ONLY <1>1, <2>1, SameCount
  <2>3. \A a \in S : V[a] = {b \in S : Pages!Before(b, a)}
    BY ONLY <1>4
  <2> QED  BY ONLY <2>2, <2>3
<1>6. IsFiniteSet(S)
  <2>1. IsFiniteSet(1 .. listed)
    <3>1. listed \in Int /\ 1 \in Int
      BY SavedCount
    <3> QED  BY <3>1, FS_Interval
  <2>2. S \subseteq 1 .. listed
    BY <1>1, BatchNumbers
  <2> QED  BY <2>1, <2>2, FS_Subset
<1>7. n \in Nat
  BY <1>1, SavedCount
<1>8. \A a \in S : Pages!PageOf(a) \in Int /\ a \in Int
  <2>1. A \subseteq Int /\ S \subseteq Int
    BY <1>1, BatchNumbers
  <2> QED  BY <1>1, <2>1, PageOfRow
<1>9. PICK g : g = [a \in S |-> Pages!PageOf(a)]
  OBVIOUS
<1>10. \A a \in S : g[a] \in Int /\ a \in Int
  BY <1>8, <1>9
<1>11. \A a, b \in S : <<b, a>> \in R <=> g[b] < g[a] \/ (g[b] = g[a] /\ b > a)
  BY <1>3, <1>9 DEF Pages!Before
<1>12. \A a \in S : <<a, a>> \notin R
  BY ONLY <1>10, <1>11
<1>13. \A a, b, c \in S : <<a, b>> \in R /\ <<b, c>> \in R => <<a, c>> \in R
  BY ONLY <1>10, <1>11
<1>14. \A a, b \in S : a # b => <<a, b>> \in R \/ <<b, a>> \in R
  BY ONLY <1>10, <1>11
<1>18. OrderOf(S, R, V) /\ FewBefore(S, n, V, T)
  BY ONLY <1>5, <1>12, <1>13, <1>14, <1>17 DEF OrderOf, FewBefore
<1>19. BeginningOf(S, n, R, T)
  BY ONLY <1>6, <1>7, <1>18, FirstInOrder
<1>15. /\ T \subseteq S /\ IsFiniteSet(T) /\ Cardinality(T) <= n
       /\ T # S => n <= Cardinality(T)
       /\ \A a \in T, b \in S : <<b, a>> \in R => b \in T
  BY ONLY <1>19 DEF BeginningOf
<1>16. \A a \in T, b \in S : Pages!Before(b, a) => b \in T
  BY ONLY <1>3, <1>15
<1> QED  BY ONLY <1>1, <1>15, <1>16

\* What a batch did not get although it lies above its oldest row.
LEMMA BatchGaps ==
  ASSUME PagesTyped, pc = "wait", NEW A, NEW U, NEW lo, NEW hi, BatchOf(A, U, lo, hi), NEW m \in A, NEW G,
         \A a \in G : a \in Nat \ {0} /\ a <= U[1] /\ U[m] - m * PS < a /\ a \notin Pages!Rows
  PROVE  /\ IsFiniteSet(G)
         /\ Cardinality(G) <= (hi - lo) * (PageCount(limit - Cardinality(saved)) - 1)
         /\ lo = hi => G = {}
<1>1. PICK s, c : s = PS /\ c = PageCount(limit - Cardinality(saved))
  OBVIOUS
<1>2. /\ s \in Nat \ {0} /\ c \in Nat \ {0} /\ lo \in Nat /\ hi \in Nat /\ lo <= hi
      /\ A \subseteq 1 .. c /\ 1 \in A /\ A \subseteq Nat \ {0}
      /\ \A i \in A : U[i] \in lo .. hi
      /\ \A i \in A : i = 1 \/ i - 1 \in A
  BY ONLY <1>1, BatchNumbers, PagesTyped, pc = "wait", BatchOf(A, U, lo, hi)
<1>3. \A a \in G : /\ a \in Nat \ {0} /\ a <= U[1] /\ U[m] - m * s < a
                   /\ \A i \in A : a \notin Slice(s, U[i], i)
  BY <1>1, BatchRows
<1>4. IsFiniteSet(G) /\ Cardinality(G) <= (hi - lo) * (c - 1)
  BY ONLY ZenonT(60), <1>2, <1>3, m \in A, GapsAreFew
<1>5. ASSUME lo = hi, NEW a \in G PROVE FALSE
  <2>1. \A i \in A : U[i] = lo /\ U[i] \in Nat
    BY <1>2, <1>5
  <2>2. PICK i \in A : i - 1 \in A /\ U[i] - (i - 1) * s < a /\ a <= U[i - 1] - (i - 1) * s
    BY ONLY <1>2, <1>3, <1>5, <2>1, m \in A, GapAt
  <2>3. PICK x : x = (i - 1) * s
    OBVIOUS
  <2>4. x \in Int /\ a \in Int
    <3>1. i - 1 \in Int /\ s \in Int
      BY <1>2, <2>2
    <3> QED  BY <1>3, <1>5, <2>3, <3>1
  <2>5. lo - x < a /\ a <= lo - x
    BY ONLY <2>1, <2>2, <2>3
  <2> QED  BY ONLY <1>2, <2>4, <2>5
<1> QED  BY ONLY <1>1, <1>4, <1>5

\* What has been handed on after a batch.
LEMMA BatchSaves ==
  ASSUME PagesTyped, pc = "wait", NEW A, NEW U, NEW lo, NEW hi, BatchOf(A, U, lo, hi),
         NEW K, K = saved \cup Pages!normalize_activity_batch
  PROVE  /\ K \subseteq 1 .. listed /\ IsFiniteSet(K) /\ Cardinality(K) \in Nat /\ Cardinality(K) <= limit
         /\ Cardinality(K) < limit => K = saved \cup Pages!Rows
<1>1. PICK N, F, n : N = Pages!normalize_activity_batch /\ F = Pages!Rows \ saved /\ n = limit - Cardinality(saved)
  OBVIOUS
<1>2. /\ N \subseteq F /\ IsFiniteSet(N) /\ Cardinality(N) <= n
      /\ N = F \/ n <= Cardinality(N)
  BY ONLY <1>1, BatchKeeps, PagesTyped, pc = "wait", BatchOf(A, U, lo, hi)
<1>3. IsFiniteSet(saved) /\ Cardinality(saved) \in Nat /\ limit \in Nat
  BY SavedCount
<1>4. Cardinality(N) \in Nat
  BY <1>2, FS_CardinalityType
<1>5. saved \cap N = {}
  BY <1>1, <1>2
<1>6. IsFiniteSet(K) /\ Cardinality(K) = Cardinality(saved) + Cardinality(N)
  <2>1. IsFiniteSet(K) /\ Cardinality(K) = Cardinality(saved) + Cardinality(N) - Cardinality(saved \cap N)
    BY <1>1, <1>2, <1>3, FS_Union
  <2>2. Cardinality(saved \cap N) = 0
    BY <1>5, FS_EmptySet
  <2> QED  BY <1>3, <1>4, <2>1, <2>2
<1>7. K \subseteq 1 .. listed
  <2>1. Pages!Rows \subseteq 1 .. listed /\ saved \subseteq 1 .. listed
    BY BatchNumbers DEF PagesTyped
  <2> QED  BY <1>1, <1>2, <2>1
<1>8. Cardinality(K) \in Nat /\ Cardinality(K) <= limit
  BY ONLY <1>1, <1>2, <1>3, <1>4, <1>6
<1>9. ASSUME Cardinality(K) < limit PROVE K = saved \cup Pages!Rows
  <2>1. ~(n <= Cardinality(N))
    BY ONLY <1>1, <1>3, <1>4, <1>6, <1>9
  <2>2. N = F
    BY ONLY <1>2, <2>1
  <2> QED  BY <1>1, <2>2
<1> QED  BY <1>6, <1>7, <1>8, <1>9

\* The first batch.
LEMMA FirstBatch ==
  ASSUME PagesTyped, Going, pc = "wait", end = 0, NEW A, NEW U, NEW lo, NEW hi, BatchOf(A, U, lo, hi)
  PROVE  /\ saved = {} /\ cuts = {} /\ limit - Cardinality(saved) = limit /\ limit \in Nat \ {0}
         /\ lo = PagesListed /\ hi = listed /\ listed \in Nat /\ PagesListed \in Nat \ {0}
         /\ \A i \in A : PagesListed <= U[i] /\ U[i] <= listed /\ U[i] \in Nat
<1>1. saved = {} /\ cuts = {}
  BY DEF Going
<1>2. limit \in Nat \ {0} /\ listed \in Nat /\ PagesListed \in Nat \ {0}
  BY SavedCount
<1>3. limit - Cardinality(saved) = limit
  BY <1>1, <1>2, FS_EmptySet
<1>4. lo = PagesListed /\ hi = listed
  BY DEF BatchOf
<1>5. \A i \in A : U[i] \in lo .. hi
  BY BatchNumbers
<1>6. \A i \in A : PagesListed <= U[i] /\ U[i] <= listed /\ U[i] \in Nat
  BY <1>2, <1>4, <1>5
<1> QED  BY <1>1, <1>2, <1>3, <1>4, <1>6

\* The bound on losses.
LEMMA LossBounds ==
  ASSUME PagesTyped
  PROVE  /\ listed - PagesListed \in Nat /\ PageCount(limit) \in Nat \ {0}
         /\ (listed - PagesListed) * (PageCount(limit) - 1) \in Nat
         /\ (listed - PagesListed) * PageCount(limit) \in Nat
         /\ (listed - PagesListed) * (PageCount(limit) - 1) + (listed - PagesListed)
              = (listed - PagesListed) * PageCount(limit)
         /\ listed - PagesListed <= (listed - PagesListed) * PageCount(limit)
         /\ (listed - PagesListed) * (PageCount(limit) - 1) <= (listed - PagesListed) * PageCount(limit)
<1>1. listed \in Nat /\ PagesListed \in Nat /\ PagesListed <= listed /\ limit \in Nat \ {0} /\ limit \in Limits
  BY SavedCount DEF PagesTyped
<1>2. PICK d, p : d = listed - PagesListed /\ p = PageCount(limit)
  OBVIOUS
<1>3. d \in Nat
  BY <1>1, <1>2
<1>4. p \in Nat \ {0}
  BY <1>1, <1>2, PageCounts
<1>5. d * (p - 1) + d = d * p /\ d * (p - 1) \in Nat /\ d * p \in Nat /\ d <= d * p /\ d * (p - 1) <= d * p
  BY <1>3, <1>4, BoundsGrow
<1> QED  BY ONLY <1>2, <1>3, <1>4, <1>5

\* A row above the oldest one lies above the end of a page.
LEMMA AboveRow ==
  ASSUME PagesTyped, pc = "wait", NEW A, NEW U, NEW lo, NEW hi, BatchOf(A, U, lo, hi), NEW x \in Pages!Rows
  PROVE  /\ x \in Nat \ {0}
         /\ \E m \in A : U[m] - m * PS < x /\ m = Pages!PageOf(x) /\ m * PS \in Nat
<1>1. PICK m : m = Pages!PageOf(x)
  OBVIOUS
<1>2. m \in A /\ x \in Slice(PS, U[m], m)
  BY <1>1, PageOfRow
<1>3. U[m] - m * PS < x
  BY <1>2 DEF Slice
<1>4. x \in Nat \ {0}
  <2>1. Pages!Rows \subseteq 1 .. listed
    BY BatchNumbers
  <2> QED  BY <2>1
<1>5. m \in Nat /\ PS \in Nat
  BY <1>2, BatchNumbers
<1>6. m * PS \in Nat
  BY <1>5, TimesGrows
<1> QED  BY <1>1, <1>2, <1>3, <1>4, <1>6

\* In a later batch, all pages have seen the same activities.
LEMMA LaterBatch ==
  ASSUME PagesTyped, Going, pc = "wait", end # 0, NEW A, NEW U, NEW lo, NEW hi, BatchOf(A, U, lo, hi)
  PROVE  /\ lo = hi /\ lo \in Nat /\ \A i \in A : U[i] = lo
         /\ \A a \in Nat \ {0} : a <= listed => (a <= lo <=> Seconds[a] <= end)
         /\ \A a \in Pages!Rows : Seconds[a] <= end
         /\ \A a, x : x \in Pages!Rows /\ a \in Nat /\ x <= a /\ a <= lo => a \in Pages!Rows
<1>1. lo = hi /\ 1 .. lo = Until(listed, end)
  BY DEF BatchOf
<1>2. /\ PS \in Nat \ {0} /\ lo \in Nat /\ hi <= listed /\ A \subseteq Nat \ {0} /\ 1 \in A
      /\ \A i \in A : U[i] \in lo .. hi
      /\ \A i \in A : i = 1 \/ i - 1 \in A
      /\ Pages!Rows \subseteq 1 .. listed
  BY BatchNumbers
<1>3. \A i \in A : U[i] = lo
  BY <1>1, <1>2
<1>4. \A a \in Nat \ {0} : a <= listed => (a <= lo <=> Seconds[a] <= end)
  <2> SUFFICES ASSUME NEW a \in Nat \ {0}, a <= listed PROVE a <= lo <=> Seconds[a] <= end
    OBVIOUS
  <2>1. a \in 1 .. lo <=> a <= lo
    BY <1>2
  <2>2. a \in Until(listed, end) <=> Seconds[a] <= end
    <3>1. a \in 1 .. listed
      BY SavedCount
    <3> QED  BY <3>1 DEF Until
  <2> QED  BY <1>1, <2>1, <2>2
<1>5. ASSUME NEW a \in Pages!Rows PROVE Seconds[a] <= end
  <2>1. PICK i \in A : a \in Slice(PS, U[i], i)
    BY BatchRows
  <2>2. a \in 1 .. lo
    BY <1>3, <2>1 DEF Slice
  <2>3. a \in Until(listed, end)
    BY <1>1, <2>2
  <2> QED  BY <2>3 DEF Until
<1>6. ASSUME NEW a, NEW x, x \in Pages!Rows, a \in Nat, x <= a, a <= lo, a \notin Pages!Rows PROVE FALSE
  <2>1. PICK m \in A : U[m] - m * PS < x /\ m * PS \in Nat
    BY <1>6, AboveRow
  <2>2. x \in Nat \ {0}
    BY <1>6, AboveRow
  <2>3. U[m] = lo /\ U[1] = lo
    BY <1>2, <1>3
  <2>4. a \in Nat \ {0} /\ a <= U[1] /\ U[m] - m * PS < a
    BY <1>2, <1>6, <2>1, <2>2, <2>3
  <2>5. PICK G : G = {a}
    OBVIOUS
  <2>6. \A y \in G : y \in Nat \ {0} /\ y <= U[1] /\ U[m] - m * PS < y /\ y \notin Pages!Rows
    BY <1>6, <2>4, <2>5
  <2>7. G = {}
    BY ONLY <1>1, <2>1, <2>6, BatchGaps, PagesTyped, pc = "wait", BatchOf(A, U, lo, hi)
  <2> QED  BY <2>5, <2>7
<1> QED  BY <1>1, <1>2, <1>3, <1>4, <1>5, <1>6

LEMMA SecondsOf ==
  ASSUME PagesTyped
  PROVE  /\ \A a \in 1 .. listed : a \in DOMAIN Seconds /\ a \in Nat \ {0} /\ Seconds[a] \in Nat \ {0, 1}
         /\ \A a, b \in 1 .. listed : a <= b => Seconds[a] <= Seconds[b]
         /\ \A a \in 1 .. PagesListed : a \in 1 .. listed
         /\ listed \in 1 .. listed /\ end \in Nat
<1>1. listed \in 1 .. Len(Seconds) /\ Len(Seconds) \in Nat /\ DOMAIN Seconds = 1 .. Len(Seconds)
  BY PageConstants DEF PagesTyped
<1>2. \A a \in 1 .. listed : a \in DOMAIN Seconds /\ a \in Nat \ {0}
  BY <1>1
<1>3. \A a \in 1 .. listed : Seconds[a] \in Nat \ {0, 1}
  BY <1>2, PageConstants
<1>4. \A a, b \in 1 .. listed : a <= b => Seconds[a] <= Seconds[b]
  BY <1>2, PageConstants
<1>5. \A a \in 1 .. PagesListed : a \in 1 .. listed
  <2>1. PagesListed \in Nat /\ PagesListed <= listed /\ listed \in Nat
    BY SavedCount DEF PagesTyped
  <2> QED  BY <2>1
<1>6. listed \in 1 .. listed /\ end \in Nat
  BY <1>1 DEF PagesTyped
<1> QED  BY <1>2, <1>3, <1>4, <1>5, <1>6

\* The rows have an oldest one, and the next batch ends before its second.
LEMMA OldestRow ==
  ASSUME PagesTyped, pc = "wait", NEW A, NEW U, NEW lo, NEW hi, BatchOf(A, U, lo, hi), Pages!Rows # {}
  PROVE  \E x \in Pages!Rows : /\ \A y \in Pages!Rows : x <= y
                               /\ Pages!oldest_timestamp = Seconds[x] - 1
                               /\ x \in 1 .. listed /\ Seconds[x] \in Nat \ {0, 1}
<1>1. Pages!Rows \subseteq 1 .. listed
  BY BatchNumbers
<1>2. Pages!Rows \subseteq Nat
  <2>1. \A a \in 1 .. listed : a \in Nat
    OBVIOUS
  <2> QED  BY <1>1, <2>1
<1>3. \E x \in Pages!Rows : \A y \in Pages!Rows : x <= y
  BY <1>2, NatHasLeast
<1>4. PICK x : x = Pages!Min(Pages!Rows)
  OBVIOUS
<1>5. x = CHOOSE z \in Pages!Rows : \A y \in Pages!Rows : z <= y
  BY <1>4 DEF Pages!Min
<1>6. x \in Pages!Rows /\ \A y \in Pages!Rows : x <= y
  BY ONLY <1>3, <1>5
<1>7. Pages!oldest_timestamp = Seconds[x] - 1
  BY <1>4 DEF Pages!oldest_timestamp
<1>8. x \in 1 .. listed /\ Seconds[x] \in Nat \ {0, 1}
  BY <1>1, <1>6, SecondsOf
<1> QED  BY <1>6, <1>7, <1>8

\* Another batch follows: what it will not ask for was handed on, but for a few.
LEMMA BatchGoes ==
  ASSUME PagesTyped, Going, pc = "wait", NEW A, NEW U, NEW lo, NEW hi, BatchOf(A, U, lo, hi),
         NEW K, K = saved \cup Pages!normalize_activity_batch, Cardinality(K) < limit, Pages!Rows # {},
         NEW o, o = Pages!oldest_timestamp, NEW c, c = cuts \cup {o + 1}
  PROVE  /\ o \in Nat \ {0} /\ Seconds[listed] > o /\ \A a \in K : Seconds[a] > o
         /\ Cardinality(Lost(K, o, c)) <= (listed - PagesListed) * (PageCount(limit) - 1)
<1>1. PICK x \in Pages!Rows : /\ \A y \in Pages!Rows : x <= y
                              /\ o = Seconds[x] - 1
                              /\ x \in 1 .. listed /\ Seconds[x] \in Nat \ {0, 1}
  BY OldestRow
<1>2. o \in Nat \ {0} /\ o + 1 = Seconds[x]
  BY <1>1
<1>3. /\ \A a \in 1 .. listed : a \in Nat \ {0} /\ Seconds[a] \in Nat
      /\ \A a, b \in 1 .. listed : a <= b => Seconds[a] <= Seconds[b]
      /\ \A a \in 1 .. PagesListed : a \in 1 .. listed
      /\ listed \in 1 .. listed /\ end \in Nat
  BY SecondsOf
<1>4. Seconds[listed] > o
  <2>1. x <= listed
    BY <1>1, <1>3
  <2>2. Seconds[x] <= Seconds[listed] /\ Seconds[listed] \in Nat
    BY <1>1, <1>3, <2>1
  <2> QED  BY <1>2, <2>2
<1>5. K = saved \cup Pages!Rows /\ K \subseteq 1 .. listed
  BY BatchSaves
<1>6. ASSUME NEW a \in K PROVE Seconds[a] > o
  <2>1. a \in 1 .. listed /\ Seconds[a] \in Nat
    BY <1>3, <1>5
  <2>2. CASE a \in Pages!Rows
    <3>1. Seconds[x] <= Seconds[a]
      BY <1>1, <1>3, <2>1, <2>2
    <3> QED  BY <1>2, <2>1, <3>1
  <2>3. CASE a \notin Pages!Rows
    <3>1. a \in saved
      BY <1>5, <2>3
    <3>2. end # 0 /\ Seconds[a] > end
      BY <3>1 DEF Going
    <3>3. Seconds[x] <= end
      BY <1>1, <3>2, LaterBatch
    <3> QED  BY <1>2, <1>3, <2>1, <3>2, <3>3
  <2> QED  BY <2>2, <2>3
<1>7. PICK G : G = Lost(K, o, c)
  OBVIOUS
\* What is lost lies above the oldest row.
<1>8. ASSUME NEW a \in G PROVE /\ a \in 1 .. PagesListed /\ a \in 1 .. listed /\ a \in Nat \ {0} /\ x <= a
                               /\ a \notin K /\ Seconds[a] \notin cuts
  <2>1. a \in 1 .. PagesListed /\ a \notin K /\ Seconds[a] > o /\ Seconds[a] \notin c
    BY <1>7 DEF Lost
  <2>2. a \in 1 .. listed /\ a \in Nat \ {0} /\ Seconds[a] \in Nat
    BY <1>3, <2>1
  <2>3. Seconds[a] # Seconds[x] /\ Seconds[a] \notin cuts
    BY <1>2, <2>1
  <2>4. Seconds[x] < Seconds[a]
    BY <1>2, <2>1, <2>2, <2>3
  <2>5. ~(a <= x)
    <3>1. a <= x => Seconds[a] <= Seconds[x]
      BY <1>1, <1>3, <2>2
    <3> QED  BY <1>1, <2>2, <2>4, <3>1
  <2>6. x \in Nat
    BY <1>1, <1>3
  <2> QED  BY <2>1, <2>2, <2>3, <2>5, <2>6
<1>9. Cardinality(G) <= (listed - PagesListed) * (PageCount(limit) - 1)
  <2>1. CASE end = 0
    <3>1. /\ saved = {} /\ limit - Cardinality(saved) = limit /\ lo = PagesListed /\ hi = listed
          /\ \A i \in A : PagesListed <= U[i] /\ U[i] \in Nat
          /\ PagesListed \in Nat
      BY <2>1, FirstBatch
    <3>2. PICK m \in A : U[m] - m * PS < x /\ m * PS \in Nat
      BY AboveRow
    <3>3. 1 \in A
      BY BatchNumbers
    <3>4. ASSUME NEW a \in G PROVE a \in Nat \ {0} /\ a <= U[1] /\ U[m] - m * PS < a /\ a \notin Pages!Rows
      <4>1. a \in Nat \ {0} /\ a \in 1 .. PagesListed /\ x <= a /\ a \notin K /\ x \in Nat
        BY <1>1, <1>3, <1>8
      <4>2. a <= U[1]
        BY <3>1, <3>3, <4>1
      <4>3. U[m] - m * PS < a
        <5>1. U[m] \in Nat
          BY <3>1
        <5>2. PICK w : w = m * PS
          OBVIOUS
        <5>3. U[m] - w < x /\ w \in Nat
          BY <3>2, <5>2
        <5>4. U[m] - w < a
          BY ONLY <4>1, <5>1, <5>3
        <5> QED  BY ONLY <5>2, <5>4
      <4> QED  BY <1>5, <4>1, <4>2, <4>3
    <3>5. Cardinality(G) <= (hi - lo) * (PageCount(limit - Cardinality(saved)) - 1)
      BY ONLY <3>2, <3>4, BatchGaps, PagesTyped, pc = "wait", BatchOf(A, U, lo, hi)
    <3> QED  BY ONLY <3>1, <3>5
  <2>2. CASE end # 0
    <3>1. G \subseteq Lost(saved, end, cuts)
      <4> SUFFICES ASSUME NEW a \in G PROVE a \in Lost(saved, end, cuts)
        OBVIOUS
      <4>1. a \in 1 .. PagesListed /\ a \in Nat \ {0} /\ a <= listed /\ x <= a /\ a \notin K /\ Seconds[a] \notin cuts
        <5>1. a \in 1 .. listed /\ listed \in Nat
          BY <1>3, <1>8
        <5>2. a <= listed
          BY <5>1
        <5> QED  BY <1>8, <5>2
      <4>2. a \notin Pages!Rows /\ a \notin saved
        BY <1>5, <4>1
      <4>3. ~(a <= lo)
        BY <2>2, <4>1, <4>2, LaterBatch
      <4>4. ~(Seconds[a] <= end)
        BY <2>2, <4>1, <4>3, LaterBatch
      <4>5. Seconds[a] > end
        BY <1>3, <1>8, <4>4
      <4> QED  BY <4>1, <4>2, <4>5 DEF Lost
    <3>2. IsFiniteSet(Lost(saved, end, cuts))
      <4>1. Lost(saved, end, cuts) \subseteq 1 .. PagesListed
        BY DEF Lost
      <4>2. IsFiniteSet(1 .. PagesListed)
        <5>1. PagesListed \in Int /\ 1 \in Int
          BY SavedCount
        <5> QED  BY <5>1, FS_Interval
      <4> QED  BY <4>1, <4>2, FS_Subset
    <3>3. Cardinality(G) <= Cardinality(Lost(saved, end, cuts))
      BY <3>1, <3>2, FS_Subset
    <3>4. Cardinality(Lost(saved, end, cuts)) <= (listed - PagesListed) * (PageCount(limit) - 1)
      BY <2>2 DEF Going
    <3>5. (listed - PagesListed) * (PageCount(limit) - 1) \in Nat
      BY LossBounds
    <3>6. Cardinality(G) \in Nat /\ Cardinality(Lost(saved, end, cuts)) \in Nat
      BY <3>1, <3>2, FS_Subset, FS_CardinalityType
    <3>7. PICK g, h, b : /\ g = Cardinality(G) /\ h = Cardinality(Lost(saved, end, cuts))
                         /\ b = (listed - PagesListed) * (PageCount(limit) - 1)
      OBVIOUS
    <3>8. g <= h /\ h <= b /\ g \in Nat /\ h \in Nat /\ b \in Nat
      BY ONLY <3>3, <3>4, <3>5, <3>6, <3>7
    <3>9. g <= b
      BY ONLY <3>8
    <3> QED  BY ONLY <3>7, <3>9
  <2> QED  BY <2>1, <2>2
<1> QED  BY <1>2, <1>4, <1>6, <1>7, <1>9

\* The members of Absent.
LEMMA AbsentOnes ==
  ASSUME PagesTyped, NEW K, NEW a \in Absent(limit, K, cuts)
  PROVE  /\ a \in 1 .. PagesListed /\ a \in 1 .. listed /\ a \in Nat \ {0} /\ a <= listed /\ a <= PagesListed
         /\ PagesListed - limit < a /\ a \notin K /\ Seconds[a] \notin cuts /\ Seconds[a] \in Nat
<1>1. a \in 1 .. PagesListed /\ PagesListed - limit < a /\ a \notin K /\ Seconds[a] \notin cuts
  BY DEF Absent
<1>2. a \in 1 .. listed /\ a \in Nat \ {0} /\ Seconds[a] \in Nat /\ listed \in Nat /\ PagesListed \in Nat
  BY <1>1, SecondsOf, SavedCount
<1> QED  BY <1>1, <1>2

LEMMA AbsentIsFinite ==
  ASSUME PagesTyped, NEW K, NEW n
  PROVE  IsFiniteSet(Absent(n, K, cuts)) /\ Cardinality(Absent(n, K, cuts)) \in Nat
<1>1. IsFiniteSet(1 .. PagesListed)
  <2>1. PagesListed \in Int /\ 1 \in Int
    BY SavedCount
  <2> QED  BY <2>1, FS_Interval
<1>2. Absent(n, K, cuts) \subseteq 1 .. PagesListed
  BY DEF Absent
<1>3. IsFiniteSet(Absent(n, K, cuts))
  BY <1>1, <1>2, FS_Subset
<1> QED  BY <1>3, FS_CardinalityType

\* If the download is full and nothing old was handed on, trades have taken the places.
LEMMA FullAndNew ==
  ASSUME PagesTyped, NEW K, K \subseteq 1 .. listed, Cardinality(K) = limit,
         \A x \in K : x <= PagesListed => PagesListed - limit < x
  PROVE  Cardinality(Absent(limit, K, cuts)) <= (listed - PagesListed) * PageCount(limit)
<1>1. listed \in Nat /\ PagesListed \in Nat /\ PagesListed <= listed /\ limit \in Nat
  BY SavedCount DEF PagesTyped
<1>2. PICK W : W = Absent(limit, K, cuts)
  OBVIOUS
<1>3. \A a \in W : a \in 1 .. PagesListed /\ PagesListed - limit < a /\ a \notin K
  BY <1>2, AbsentOnes
<1>4. Cardinality(W) <= listed - PagesListed
  BY <1>1, <1>3, InWindow
<1>5. Cardinality(W) \in Nat
  BY <1>2, AbsentIsFinite
<1>6. PICK w, d, b : w = Cardinality(W) /\ d = listed - PagesListed /\ b = (listed - PagesListed) * PageCount(limit)
  OBVIOUS
<1>7. w \in Nat /\ d \in Nat /\ b \in Nat /\ w <= d /\ d <= b
  BY ONLY <1>4, <1>5, <1>6, LossBounds, PagesTyped
<1>8. w <= b
  BY ONLY <1>7
<1> QED  BY ONLY <1>2, <1>6, <1>8

\* In the first batch, what is missing lies at the boundaries.
LEMMA FirstGaps ==
  ASSUME PagesTyped, Going, pc = "wait", end = 0, NEW A, NEW U, NEW lo, NEW hi, BatchOf(A, U, lo, hi),
         NEW m \in A, NEW W, \A a \in W : a \in 1 .. PagesListed /\ U[m] - m * PS < a /\ a \notin Pages!Rows
  PROVE  /\ IsFiniteSet(W) /\ Cardinality(W) \in Nat
         /\ Cardinality(W) <= (listed - PagesListed) * (PageCount(limit) - 1)
<1>1. /\ limit - Cardinality(saved) = limit /\ lo = PagesListed /\ hi = listed
      /\ \A i \in A : PagesListed <= U[i] /\ U[i] \in Nat
      /\ PagesListed \in Nat
  BY FirstBatch
<1>2. 1 \in A
  BY BatchNumbers
<1>3. ASSUME NEW a \in W PROVE a \in Nat \ {0} /\ a <= U[1] /\ U[m] - m * PS < a /\ a \notin Pages!Rows
  <2>1. a \in 1 .. PagesListed /\ PagesListed <= U[1] /\ U[1] \in Nat
    BY <1>1, <1>2
  <2>2. a \in Nat \ {0} /\ a <= U[1]
    BY <1>1, <2>1
  <2> QED  BY <2>2
<1>4. IsFiniteSet(W) /\ Cardinality(W) <= (hi - lo) * (PageCount(limit - Cardinality(saved)) - 1)
  BY ONLY <1>3, m \in A, BatchGaps, PagesTyped, pc = "wait", BatchOf(A, U, lo, hi)
<1>5. Cardinality(W) \in Nat
  BY <1>4, FS_CardinalityType
<1> QED  BY ONLY <1>1, <1>4, <1>5

LEMMA FirstGapsBound ==
  ASSUME PagesTyped, NEW w \in Nat, w <= (listed - PagesListed) * (PageCount(limit) - 1)
  PROVE  w <= (listed - PagesListed) * PageCount(limit)
<1>1. PICK b, c : b = (listed - PagesListed) * (PageCount(limit) - 1) /\ c = (listed - PagesListed) * PageCount(limit)
  OBVIOUS
<1>2. b \in Nat /\ c \in Nat /\ b <= c /\ w <= b
  BY ONLY <1>1, LossBounds, PagesTyped, w <= (listed - PagesListed) * (PageCount(limit) - 1)
<1>3. w <= c
  BY ONLY <1>2, w \in Nat
<1> QED  BY ONLY <1>1, <1>3

\* In a later batch, what was lost before.
LEMMA LaterLoss ==
  ASSUME PagesTyped, Going, pc = "wait", end # 0, NEW W, W \subseteq Lost(saved, end, cuts)
  PROVE  Cardinality(W) <= (listed - PagesListed) * PageCount(limit)
<1>1. IsFiniteSet(Lost(saved, end, cuts))
  <2>1. Lost(saved, end, cuts) \subseteq 1 .. PagesListed
    BY DEF Lost
  <2>2. IsFiniteSet(1 .. PagesListed)
    <3>1. PagesListed \in Int /\ 1 \in Int
      BY SavedCount
    <3> QED  BY <3>1, FS_Interval
  <2> QED  BY <2>1, <2>2, FS_Subset
<1>2. IsFiniteSet(W) /\ Cardinality(W) <= Cardinality(Lost(saved, end, cuts))
  BY <1>1, FS_Subset
<1>3. PICK w, h : w = Cardinality(W) /\ h = Cardinality(Lost(saved, end, cuts))
  OBVIOUS
<1>4. w \in Nat /\ h \in Nat
  BY <1>1, <1>2, <1>3, FS_CardinalityType
<1>5. h <= (listed - PagesListed) * (PageCount(limit) - 1)
  BY <1>3 DEF Going
<1>6. h <= (listed - PagesListed) * PageCount(limit)
  BY <1>4, <1>5, FirstGapsBound
<1>7. PICK c : c = (listed - PagesListed) * PageCount(limit)
  OBVIOUS
<1>8. c \in Nat
  BY ONLY <1>7, LossBounds, PagesTyped
<1>9. w <= c
  BY ONLY <1>2, <1>3, <1>4, <1>6, <1>7, <1>8
<1> QED  BY ONLY <1>3, <1>7, <1>9

\* Who is above a kept row and in the batch is kept too, as long as the row's page is no earlier.
LEMMA KeptAbove ==
  ASSUME PagesTyped, pc = "wait", NEW A, NEW U, NEW lo, NEW hi, BatchOf(A, U, lo, hi),
         NEW K, K = saved \cup Pages!normalize_activity_batch,
         NEW x \in Pages!normalize_activity_batch, NEW a \in Pages!Rows, x < a,
         Pages!PageOf(a) <= Pages!PageOf(x)
  PROVE  a \in K
<1>1. SUFFICES ASSUME a \notin saved PROVE a \in Pages!normalize_activity_batch
  OBVIOUS
<1>2. x \in Pages!Rows
  BY BatchKeeps
<1>3. PICK g, h : g = Pages!PageOf(a) /\ h = Pages!PageOf(x)
  OBVIOUS
<1>4. g \in Int /\ h \in Int
  <2>1. g \in A /\ h \in A /\ A \subseteq Nat \ {0}
    BY <1>2, <1>3, PageOfRow, BatchNumbers
  <2> QED  BY <2>1
<1>5. a \in Int /\ x \in Int
  <2>1. Pages!Rows \subseteq 1 .. listed
    BY BatchNumbers
  <2> QED  BY <1>2, <2>1
<1>6. g < h \/ (g = h /\ a > x)
  BY ONLY <1>3, <1>4, <1>5, Pages!PageOf(a) <= Pages!PageOf(x), x < a
<1>7. Pages!Before(a, x)
  BY ONLY <1>3, <1>6 DEF Pages!Before
<1>8. a \in Pages!Rows \ saved
  BY <1>1
<1> QED  BY <1>7, <1>8, BatchKeeps

\* The first page of a batch is empty only if there is nothing to ask for.
LEMMA EmptyBatch ==
  ASSUME PagesTyped, pc = "wait", NEW A, NEW U, NEW lo, NEW hi, BatchOf(A, U, lo, hi), Pages!Rows = {}
  PROVE  U[1] = 0
<1>1. 1 \in A /\ U[1] \in Nat /\ PS \in Nat \ {0}
  <2>1. 1 \in A /\ U[1] \in lo .. hi /\ lo \in Nat /\ hi \in Nat /\ PS \in Nat \ {0}
    BY BatchNumbers
  <2> QED  BY <2>1
<1>2. PICK s, u : s = PS /\ u = U[1]
  OBVIOUS
<1>3. u # 0 => u \in Slice(s, u, 1)
  <2>1. 1 * s = s /\ (1 - 1) * s = 0 /\ s \in Nat \ {0} /\ u \in Nat
    BY <1>1, <1>2
  <2>2. u # 0 => u \in 1 .. u /\ u - s < u /\ u <= u - 0
    BY <2>1
  <2> QED  BY ONLY <2>1, <2>2 DEF Slice
<1>4. u \notin Slice(s, u, 1)
  BY <1>1, <1>2, BatchRows
<1> QED  BY ONLY <1>2, <1>3, <1>4

\* An old row that the first batch keeps is on the last page.
LEMMA OldIsLast ==
  ASSUME PagesTyped, Going, pc = "wait", end = 0, NEW A, NEW U, NEW lo, NEW hi, BatchOf(A, U, lo, hi),
         NEW x \in Pages!Rows, x <= PagesListed - limit
  PROVE  Pages!PageOf(x) = PageCount(limit)
<1>1. PICK p, s : p = PageCount(limit) /\ s = PS
  OBVIOUS
<1>2. /\ limit - Cardinality(saved) = limit /\ limit \in Nat \ {0} /\ PagesListed \in Nat
      /\ \A i \in A : PagesListed <= U[i] /\ U[i] \in Nat
  BY FirstBatch
<1>3. p \in Nat \ {0} /\ s \in Nat \ {0} /\ A \subseteq 1 .. p
  BY <1>1, <1>2, BatchNumbers
<1>4. (p - 1) * s < limit
  <2>1. limit \in Limits
    BY DEF PagesTyped
  <2> QED  BY <1>1, <1>2, <2>1, PageCounts
<1>5. PICK m \in A : U[m] - m * s < x /\ m = Pages!PageOf(x) /\ m * s \in Nat
  BY <1>1, AboveRow
<1>6. x \in Nat
  BY AboveRow
<1>7. limit < m * s
  <2>1. PICK w : w = m * s
    OBVIOUS
  <2>2. U[m] - w < x /\ w \in Nat /\ U[m] \in Nat /\ PagesListed <= U[m]
    BY <1>2, <1>5, <2>1
  <2>3. limit < w
    BY ONLY <1>2, <1>6, <2>2, x <= PagesListed - limit
  <2> QED  BY ONLY <2>1, <2>3
<1>8. ASSUME m # p PROVE FALSE
  <2>1. m \in Nat /\ p - 1 \in Nat /\ m <= p - 1
    BY <1>3, <1>8
  <2>2. PICK e : e = p - 1
    OBVIOUS
  <2>3. m * s \in Nat /\ e * s \in Nat /\ m * s <= e * s
    BY ONLY <1>3, <2>1, <2>2, TimesGrows
  <2>4. PICK y, z : y = m * s /\ z = e * s
    OBVIOUS
  <2>5. limit < y /\ z < limit /\ y <= z /\ y \in Nat /\ z \in Nat
    BY ONLY <1>4, <1>7, <2>2, <2>3, <2>4
  <2> QED  BY ONLY <1>2, <2>5
<1> QED  BY <1>1, <1>5, <1>8

\* The first batch ends the download because it is full and has an old row.
LEMMA FirstFull ==
  ASSUME PagesTyped, Going, pc = "wait", end = 0, NEW A, NEW U, NEW lo, NEW hi, BatchOf(A, U, lo, hi),
         NEW K, K = saved \cup Pages!normalize_activity_batch, NEW x \in K, x <= PagesListed - limit
  PROVE  Cardinality(Absent(limit, K, cuts)) <= (listed - PagesListed) * PageCount(limit)
<1>1. PICK W : W = Absent(limit, K, cuts)
  OBVIOUS
<1>2. /\ saved = {} /\ limit - Cardinality(saved) = limit /\ limit \in Nat \ {0} /\ PagesListed \in Nat
      /\ \A i \in A : PagesListed <= U[i] /\ U[i] \in Nat
  BY FirstBatch
<1>3. x \in Pages!normalize_activity_batch /\ x \in Pages!Rows /\ x \in Nat
  <2>1. x \in Pages!normalize_activity_batch
    BY <1>2
  <2>2. x \in Pages!Rows
    BY <2>1, BatchKeeps
  <2> QED  BY <2>1, <2>2, AboveRow
<1>4. PICK m \in A : U[m] - m * PS < x /\ m = Pages!PageOf(x) /\ m * PS \in Nat
  BY <1>3, AboveRow
<1>5. m = PageCount(limit)
  BY <1>3, <1>4, OldIsLast
<1>6. ASSUME NEW a \in W PROVE a \in 1 .. PagesListed /\ U[m] - m * PS < a /\ a \notin Pages!Rows
  <2>1. a \in 1 .. PagesListed /\ a \in Nat \ {0} /\ PagesListed - limit < a /\ a \notin K
    BY <1>1, AbsentOnes
  <2>2. x < a
    BY <1>2, <1>3, <2>1
  <2>3. U[m] - m * PS < a
    <3>1. PICK w : w = m * PS
      OBVIOUS
    <3>2. U[m] - w < x /\ w \in Nat /\ U[m] \in Nat
      BY <1>2, <1>4, <3>1
    <3>3. U[m] - w < a
      BY ONLY <1>3, <2>1, <2>2, <3>2
    <3> QED  BY ONLY <3>1, <3>3
  <2>4. a \in Pages!Rows => Pages!PageOf(a) <= Pages!PageOf(x)
    <3> SUFFICES ASSUME a \in Pages!Rows PROVE Pages!PageOf(a) <= Pages!PageOf(x)
      OBVIOUS
    <3>1. Pages!PageOf(a) \in A /\ A \subseteq 1 .. PageCount(limit)
      BY <1>2, PageOfRow, BatchNumbers
    <3>2. Pages!PageOf(a) \in 1 .. m
      BY <1>5, <3>1
    <3>3. m \in Nat
      BY BatchNumbers
    <3> QED  BY <1>4, <3>2, <3>3
  <2>5. a \notin Pages!Rows
    BY <1>3, <2>1, <2>2, <2>4, KeptAbove
  <2> QED  BY <2>1, <2>3, <2>5
<1>7. Cardinality(W) \in Nat /\ Cardinality(W) <= (listed - PagesListed) * (PageCount(limit) - 1)
  BY ONLY <1>6, FirstGaps, PagesTyped, Going, pc = "wait", end = 0, BatchOf(A, U, lo, hi)
<1> QED  BY ONLY <1>1, <1>7, FirstGapsBound, PagesTyped

\* The first batch ends the download because the wallet has no more.
LEMMA FirstReached ==
  ASSUME PagesTyped, Going, pc = "wait", end = 0, NEW A, NEW U, NEW lo, NEW hi, BatchOf(A, U, lo, hi),
         NEW K, K = saved \cup Pages!Rows, Pages!reached_end
  PROVE  Cardinality(Absent(limit, K, cuts)) <= (listed - PagesListed) * PageCount(limit)
<1>1. PICK W : W = Absent(limit, K, cuts)
  OBVIOUS
<1>2. PICK m \in A : U[m] < m * PS
  BY DEF BatchOf
<1>3. ASSUME NEW a \in W PROVE a \in 1 .. PagesListed /\ U[m] - m * PS < a /\ a \notin Pages!Rows
  <2>1. a \in 1 .. PagesListed /\ a \in Nat \ {0} /\ a \notin K
    BY <1>1, AbsentOnes
  <2>2. U[m] - m * PS < a
    <3>1. U[m] \in Nat /\ m \in Nat /\ PS \in Nat
      BY FirstBatch, BatchNumbers
    <3>2. PICK w : w = m * PS
      OBVIOUS
    <3>3. w \in Nat
      BY <3>1, <3>2, TimesGrows
    <3>4. U[m] - w < a
      BY ONLY <1>2, <2>1, <3>1, <3>2, <3>3
    <3> QED  BY ONLY <3>2, <3>4
  <2> QED  BY <2>1, <2>2
<1>4. Cardinality(W) \in Nat /\ Cardinality(W) <= (listed - PagesListed) * (PageCount(limit) - 1)
  BY ONLY <1>3, FirstGaps, PagesTyped, Going, pc = "wait", end = 0, BatchOf(A, U, lo, hi)
<1> QED  BY ONLY <1>1, <1>4, FirstGapsBound, PagesTyped

\* The rows of k pages, counted as often as they occur.
LEMMA RowCounts ==
  ASSUME PagesTyped, pc = "wait", NEW A, NEW U, NEW lo, NEW hi, BatchOf(A, U, lo, hi),
         NEW k \in Nat, A \subseteq 1 .. k
  PROVE  Pages!RowCount \in Nat /\ Pages!RowCount <= k * PS
<1>1. PICK P : P = {x \in Pages!fetch_offset_page_batch \X (1 .. listed) : x[2] \in pages[x[1]].rows}
  OBVIOUS
<1>2. \A i \in A : pages[i].rows = Slice(PS, U[i], i) /\ U[i] \in lo .. hi
  BY DEF BatchOf
<1>3. \A i \in Pages!fetch_offset_page_batch : i \in A \/ pages[i].rows = {}
  BY DEF BatchOf
<1>4. lo \in Nat /\ hi \in Nat /\ PS \in Nat \ {0}
  BY BatchNumbers
<1>5. PICK s : s = PS
  OBVIOUS
<1>6. ASSUME NEW x \in P
      PROVE  x = <<x[1], x[2]>> /\ x[1] \in 1 .. k /\ U[x[1]] \in Nat /\ x[2] \in Slice(s, U[x[1]], x[1])
  <2>1. x = <<x[1], x[2]>> /\ x[1] \in Pages!fetch_offset_page_batch /\ x[2] \in pages[x[1]].rows
    BY <1>1
  <2>2. x[1] \in A
    BY <1>3, <2>1
  <2>3. U[x[1]] \in Nat
    <3>1. U[x[1]] \in lo .. hi
      BY ONLY <1>2, <2>2
    <3>2. \A v \in lo .. hi : v \in Nat
      BY <1>4
    <3> QED  BY ONLY <3>1, <3>2
  <2> QED  BY <1>2, <1>5, <2>1, <2>2, <2>3
<1>7. IsFiniteSet(P) /\ Cardinality(P) <= k * s
  BY ONLY <1>4, <1>5, <1>6, k \in Nat, RowsAreFew
<1>8. Pages!RowCount = Cardinality(P)
  BY ONLY <1>1, SameCount DEF Pages!RowCount
<1>9. Cardinality(P) \in Nat
  BY <1>7, FS_CardinalityType
<1> QED  BY ONLY <1>5, <1>7, <1>8, <1>9

\* The first batch ends the download because it has rows enough, however often.
LEMMA FirstCounted ==
  ASSUME PagesTyped, Going, pc = "wait", end = 0, NEW A, NEW U, NEW lo, NEW hi, BatchOf(A, U, lo, hi),
         NEW K, K = saved \cup Pages!Rows, Pages!RowCount >= limit
  PROVE  Cardinality(Absent(limit, K, cuts)) <= (listed - PagesListed) * PageCount(limit)
<1>1. PICK W, p, s : W = Absent(limit, K, cuts) /\ p = PageCount(limit) /\ s = PS
  OBVIOUS
<1>2. /\ limit - Cardinality(saved) = limit /\ limit \in Nat \ {0} /\ PagesListed \in Nat /\ listed \in Nat
      /\ \A i \in A : U[i] <= listed /\ U[i] \in Nat
  BY FirstBatch
<1>3. p \in Nat \ {0} /\ s \in Nat \ {0} /\ A \subseteq 1 .. p
  BY <1>1, <1>2, BatchNumbers
<1>4. (p - 1) * s < limit
  <2>1. limit \in Limits
    BY DEF PagesTyped
  <2> QED  BY <1>1, <1>2, <2>1, PageCounts
<1>5. p \in A
  <2> SUFFICES ASSUME p \notin A PROVE FALSE
    OBVIOUS
  <2>1. PICK e : e = p - 1
    OBVIOUS
  <2>2. e \in Nat /\ A \subseteq 1 .. e
    BY <1>3, <2>1
  <2>3. Pages!RowCount <= e * s
    BY <1>1, <2>2, RowCounts
  <2>4. PICK w, c : w = e * s /\ c = Pages!RowCount
    OBVIOUS
  <2>5. w \in Nat
    <3>1. e * s \in Nat
      BY ONLY <1>3, <2>2, TimesGrows
    <3> QED  BY ONLY <2>4, <3>1
  <2>6. c <= w /\ w < limit /\ c >= limit
    BY ONLY <1>4, <2>1, <2>3, <2>4, Pages!RowCount >= limit
  <2>7. c \in Nat
    BY <1>1, <2>2, <2>4, RowCounts
  <2> QED  BY ONLY <1>2, <2>5, <2>6, <2>7
<1>6. limit <= p * s /\ p * s \in Nat
  <2>1. Pages!RowCount \in Nat /\ Pages!RowCount <= p * s
    BY <1>1, <1>3, RowCounts
  <2>2. p * s \in Nat
    BY ONLY <1>3, TimesGrows
  <2>3. PICK w, c : w = p * s /\ c = Pages!RowCount
    OBVIOUS
  <2>4. c <= w /\ c >= limit /\ w \in Nat /\ c \in Nat
    BY ONLY <2>1, <2>2, <2>3, Pages!RowCount >= limit
  <2>5. limit <= w
    BY ONLY <1>2, <2>4
  <2> QED  BY ONLY <2>2, <2>3, <2>5
<1>7. PICK x, u, d : x = p * s /\ u = U[p] /\ d = listed - PagesListed
  OBVIOUS
<1>8. x \in Nat /\ limit <= x /\ u \in Nat /\ u <= listed /\ d \in Nat
  <2>1. PagesListed <= listed
    BY DEF PagesTyped
  <2>2. d \in Nat
    BY ONLY <1>2, <1>7, <2>1
  <2> QED  BY ONLY <1>2, <1>5, <1>6, <1>7, <2>2
<1>9. \A a \in W : a \in 1 .. PagesListed /\ a \in Nat \ {0} /\ PagesListed - limit < a /\ a \notin Pages!Rows
  BY <1>1, AbsentOnes
<1>10. PICK V, T : V = {a \in W : u - x < a} /\ T = {a \in W : ~(u - x < a)}
  OBVIOUS
<1>11. /\ IsFiniteSet(V) /\ Cardinality(V) \in Nat
       /\ Cardinality(V) <= (listed - PagesListed) * (PageCount(limit) - 1)
  <2>1. \A a \in V : a \in 1 .. PagesListed /\ U[p] - p * PS < a /\ a \notin Pages!Rows
    BY ONLY <1>1, <1>7, <1>9, <1>10
  <2> QED  BY ONLY <1>5, <2>1, FirstGaps, PagesTyped, Going, pc = "wait", end = 0, BatchOf(A, U, lo, hi)
<1>12. IsFiniteSet(T) /\ Cardinality(T) <= d
  <2>1. ASSUME NEW a \in T PROVE a \in Nat /\ PagesListed - limit < a /\ a <= listed - x
    <3>1. a \in W /\ ~(u - x < a)
      BY <1>10
    <3>2. a \in Nat /\ PagesListed - limit < a
      BY <1>9, <3>1
    <3>3. a <= listed - x
      BY ONLY <1>2, <1>8, <3>1, <3>2
    <3> QED  BY <3>2, <3>3
  <2>2. limit \in Nat /\ PagesListed <= listed
    BY <1>2 DEF PagesTyped
  <2>3. IsFiniteSet(T) /\ Cardinality(T) <= listed - PagesListed
    BY ONLY <1>2, <1>8, <2>1, <2>2, TailIsFew
  <2> QED  BY ONLY <1>7, <2>3
<1>13. Cardinality(T) \in Nat
  BY <1>12, FS_CardinalityType
<1>14. Cardinality(W) = Cardinality(V) + Cardinality(T)
  <2>1. W = V \cup T /\ V \cap T = {}
    BY ONLY <1>10
  <2>2. Cardinality(V \cup T) = Cardinality(V) + Cardinality(T) - Cardinality(V \cap T)
    BY <1>11, <1>12, FS_Union
  <2>3. Cardinality(V \cap T) = 0
    BY <2>1, FS_EmptySet
  <2> QED  BY <1>11, <1>13, <2>1, <2>2, <2>3
<1>15. PICK g, t, b, c : /\ g = Cardinality(V) /\ t = Cardinality(T)
                         /\ b = (listed - PagesListed) * (PageCount(limit) - 1)
                         /\ c = (listed - PagesListed) * PageCount(limit)
  OBVIOUS
<1>16. b \in Nat /\ c \in Nat /\ b + d = c
  BY ONLY <1>7, <1>15, LossBounds, PagesTyped
<1>17. g + t <= c
  BY ONLY <1>8, <1>11, <1>12, <1>13, <1>15, <1>16
<1> QED  BY ONLY <1>1, <1>14, <1>15, <1>17

\* A later batch ends the download: what is missing was lost before, unless trades have taken
\* the places.
LEMMA LaterFull ==
  ASSUME PagesTyped, Going, pc = "wait", end # 0, NEW A, NEW U, NEW lo, NEW hi, BatchOf(A, U, lo, hi),
         NEW K, K = saved \cup Pages!normalize_activity_batch, NEW x \in K, x <= PagesListed - limit
  PROVE  Absent(limit, K, cuts) \subseteq Lost(saved, end, cuts)
<1>1. SUFFICES ASSUME NEW a \in Absent(limit, K, cuts) PROVE a \in Lost(saved, end, cuts)
  OBVIOUS
<1>2. /\ a \in 1 .. PagesListed /\ a \in 1 .. listed /\ a \in Nat \ {0} /\ a <= listed
      /\ PagesListed - limit < a /\ a \notin K /\ Seconds[a] \notin cuts /\ Seconds[a] \in Nat
  BY <1>1, AbsentOnes
<1>3. K \subseteq 1 .. listed
  BY BatchSaves
<1>4. x \in 1 .. listed /\ x \in Nat \ {0} /\ Seconds[x] \in Nat /\ end \in Nat
  BY <1>3, SecondsOf
<1>5. x < a
  <2>1. PagesListed \in Nat /\ limit \in Nat
    BY SavedCount
  <2> QED  BY <1>2, <1>4, <2>1
<1>6. ASSUME Seconds[a] <= end PROVE FALSE
  <2>1. Seconds[x] <= Seconds[a]
    BY <1>2, <1>4, <1>5, SecondsOf
  <2>2. x \notin saved
    <3>1. x \in saved => Seconds[x] > end
      BY DEF Going
    <3> QED  BY <1>2, <1>4, <1>6, <2>1, <3>1
  <2>3. x \in Pages!normalize_activity_batch /\ x \in Pages!Rows
    <3>1. x \in Pages!normalize_activity_batch
      BY <2>2
    <3> QED  BY <3>1, BatchKeeps
  <2>4. a <= lo /\ lo \in Nat /\ \A i \in A : U[i] = lo
    BY <1>2, <1>6, LaterBatch
  <2>5. a \in Pages!Rows
    BY <1>2, <1>4, <1>5, <2>3, <2>4, LaterBatch
  <2>6. Pages!PageOf(a) <= Pages!PageOf(x)
    <3>1. PICK g, h, s : g = Pages!PageOf(a) /\ h = Pages!PageOf(x) /\ s = PS
      OBVIOUS
    <3>2. g \in A /\ h \in A /\ a \in Slice(s, lo, g) /\ x \in Slice(s, lo, h)
      BY <2>3, <2>4, <2>5, <3>1, PageOfRow
    <3>3. g \in Nat \ {0} /\ h \in Nat \ {0} /\ s \in Nat
      BY <3>1, <3>2, BatchNumbers
    <3>4. a <= lo - (g - 1) * s /\ lo - h * s < x
      BY <3>2 DEF Slice
    <3>5. ASSUME h < g PROVE FALSE
      <4>1. PICK e : e = g - 1
        OBVIOUS
      <4>2. e \in Nat /\ h <= e /\ h \in Nat
        BY <3>3, <3>5, <4>1
      <4>3. h * s \in Nat /\ e * s \in Nat /\ h * s <= e * s
        BY ONLY <3>3, <4>2, TimesGrows
      <4>4. PICK y, z : y = h * s /\ z = e * s
        OBVIOUS
      <4>5. a <= lo - z /\ lo - y < x /\ y <= z /\ y \in Nat /\ z \in Nat
        BY ONLY <3>4, <4>1, <4>3, <4>4
      <4> QED  BY ONLY <1>2, <1>4, <1>5, <2>4, <4>5
    <3> QED  BY <3>1, <3>3, <3>5
  <2>7. a \in K
    BY <1>5, <2>3, <2>5, <2>6, KeptAbove
  <2> QED  BY <1>2, <2>7
<1>7. Seconds[a] > end /\ a \notin saved
  BY <1>2, <1>4, <1>6
<1> QED  BY <1>2, <1>7 DEF Lost

LEMMA LaterReached ==
  ASSUME PagesTyped, Going, pc = "wait", end # 0, NEW A, NEW U, NEW lo, NEW hi, BatchOf(A, U, lo, hi),
         NEW K, K = saved \cup Pages!Rows, Pages!reached_end \/ Pages!Rows = {}
  PROVE  Absent(limit, K, cuts) \subseteq Lost(saved, end, cuts)
<1>1. SUFFICES ASSUME NEW a \in Absent(limit, K, cuts) PROVE a \in Lost(saved, end, cuts)
  OBVIOUS
<1>2. /\ a \in 1 .. PagesListed /\ a \in Nat \ {0} /\ a <= listed
      /\ a \notin K /\ Seconds[a] \notin cuts /\ Seconds[a] \in Nat
  BY <1>1, AbsentOnes
<1>3. end \in Nat
  BY SecondsOf
<1>4. ASSUME Seconds[a] <= end PROVE FALSE
  <2>1. a <= lo /\ lo = hi /\ lo \in Nat /\ \A i \in A : U[i] = lo
    BY <1>2, <1>4, LaterBatch
  <2>2. 1 \in A /\ A \subseteq Nat \ {0} /\ PS \in Nat \ {0}
    BY BatchNumbers
  <2>3. CASE Pages!Rows = {}
    <3>1. U[1] = 0
      BY <2>3, EmptyBatch
    <3> QED  BY <1>2, <2>1, <2>2, <3>1
  <2>4. CASE Pages!reached_end
    <3>1. PICK m \in A : U[m] < m * PS
      BY <2>4 DEF BatchOf
    <3>2. U[m] - m * PS < a
      <4>1. PICK w : w = m * PS
        OBVIOUS
      <4>2. w \in Nat
        BY <2>2, <4>1, TimesGrows
      <4>3. U[m] = lo /\ U[m] < w
        BY <2>1, <3>1, <4>1
      <4>4. U[m] - w < a
        BY ONLY <1>2, <2>1, <4>2, <4>3
      <4> QED  BY ONLY <4>1, <4>4
    <3>3. PICK G : G = {a}
      OBVIOUS
    <3>4. \A y \in G : y \in Nat \ {0} /\ y <= U[1] /\ U[m] - m * PS < y /\ y \notin Pages!Rows
      BY <1>2, <2>1, <2>2, <3>2, <3>3
    <3>6. lo = hi /\ m \in A
      BY <2>1
    <3>5. G = {}
      BY ONLY ZenonT(60), <3>6, <3>4, BatchGaps, PagesTyped, pc = "wait", BatchOf(A, U, lo, hi)
    <3> QED  BY <3>3, <3>5
  <2> QED  BY <2>3, <2>4
<1>5. Seconds[a] > end /\ a \notin saved
  BY <1>2, <1>3, <1>4
<1> QED  BY <1>2, <1>5 DEF Lost

\* The download ends.
LEMMA BatchIsLast ==
  ASSUME PagesTyped, Going, pc = "wait", NEW A, NEW U, NEW lo, NEW hi, BatchOf(A, U, lo, hi),
         NEW K, K = saved \cup Pages!normalize_activity_batch,
         \/ ~(Cardinality(K) < limit) \/ Pages!Rows = {}
         \/ Pages!reached_end \/ (end = 0 /\ Pages!RowCount >= limit)
  PROVE  Cardinality(Absent(limit, K, cuts)) <= (listed - PagesListed) * PageCount(limit)
<1>1. /\ K \subseteq 1 .. listed /\ Cardinality(K) \in Nat /\ Cardinality(K) <= limit
      /\ Cardinality(K) < limit => K = saved \cup Pages!Rows
  BY BatchSaves
<1>2. limit \in Nat /\ PagesListed \in Nat
  BY SavedCount
<1>3. CASE Cardinality(K) < limit
  <2>1. K = saved \cup Pages!Rows
    BY <1>1, <1>3
  <2>2. CASE end # 0
    <3>1. Pages!reached_end \/ Pages!Rows = {}
      BY <1>3, <2>2
    <3>2. Absent(limit, K, cuts) \subseteq Lost(saved, end, cuts)
      BY <2>1, <2>2, <3>1, LaterReached
    <3> QED  BY <2>2, <3>2, LaterLoss
  <2>3. CASE end = 0 /\ Pages!reached_end
    BY <2>1, <2>3, FirstReached
  <2>4. CASE end = 0 /\ Pages!RowCount >= limit
    BY <2>1, <2>4, FirstCounted
  <2>5. CASE end = 0 /\ Pages!Rows = {}
    <3>1. U[1] = 0
      BY <2>5, EmptyBatch
    <3>2. PagesListed <= U[1] /\ PagesListed \in Nat \ {0}
      BY <2>5, FirstBatch, BatchNumbers
    <3> QED  BY <3>1, <3>2
  <2> QED  BY <1>3, <2>2, <2>3, <2>4, <2>5
<1>4. CASE ~(Cardinality(K) < limit)
  <2>1. Cardinality(K) = limit
    BY <1>1, <1>2, <1>4
  <2>2. CASE \A x \in K : x <= PagesListed => PagesListed - limit < x
    BY <1>1, <2>1, <2>2, FullAndNew
  <2>3. CASE ~(\A x \in K : x <= PagesListed => PagesListed - limit < x)
    <3>1. PICK x \in K : x <= PagesListed /\ ~(PagesListed - limit < x)
      BY <2>3
    <3>2. x \in Int
      BY <1>1
    <3>3. x <= PagesListed - limit
      BY <1>2, <3>1, <3>2
    <3>4. CASE end = 0
      BY <3>3, <3>4, FirstFull
    <3>5. CASE end # 0
      <4>1. Absent(limit, K, cuts) \subseteq Lost(saved, end, cuts)
        BY <3>3, <3>5, LaterFull
      <4> QED  BY <3>5, <4>1, LaterLoss
    <3> QED  BY <3>4, <3>5
  <2> QED  BY <2>2, <2>3
<1> QED  BY <1>3, <1>4

LEMMA SameSizes ==
  ASSUME limit' = limit
  PROVE  PS' = PS /\ PageCount(limit)' = PageCount(limit)
BY DEF PS, PageCount, Pages!activity_page_size, Pages!offset_batch_page_count

LEMMA SameBatch ==
  ASSUME limit' = limit, saved' = saved
  PROVE  PageCount(limit - Cardinality(saved))' = PageCount(limit - Cardinality(saved))
BY DEF PS, PageCount, Pages!activity_page_size, Pages!offset_batch_page_count

LEMMA PagesStart == ASSUME Pages!Init PROVE PagesInv
<1>1. /\ listed = PagesListed /\ limit \in Limits /\ pc = "ask" /\ pages = <<>> /\ end = 0
      /\ saved = {} /\ cuts = {} /\ pageFails = 0
  BY DEF Pages!Init
<1>2. /\ PagesListed \in DOMAIN Seconds /\ PagesListed \in Nat /\ limit \in Nat \ {0} /\ PageFailures \in Nat
  BY <1>1, PageConstants
<1>3. Cardinality(saved) = 0
  BY <1>1, FS_EmptySet
<1>4. DOMAIN pages = {}
  BY <1>1
<1>5. PagesTyped
  BY <1>1, <1>2, <1>3, <1>4 DEF PagesTyped
<1>6. Answers
  BY <1>4 DEF Answers
<1>7. Going /\ Whole
  BY <1>1 DEF Going, Whole
<1> QED  BY <1>5, <1>6, <1>7 DEF PagesInv

LEMMA BatchEndsKeeps == ASSUME PagesInv, Pages!BatchEnds PROVE PagesInv'
<1>1. PagesTyped /\ Answers /\ Going
  BY DEF PagesInv
<1>2. /\ pc = "wait" /\ (\A i \in DOMAIN pages : pages[i] # Pages!Asked)
      /\ pages' = <<>> /\ listed' = listed /\ limit' = limit /\ pageFails' = pageFails
  BY DEF Pages!BatchEnds
<1>3. DOMAIN pages' = {} /\ PS' = PS /\ PageCount(limit)' = PageCount(limit)
  BY <1>2, SameSizes
<1>4. Answers'
  BY SMTT(40), <1>3 DEF Answers
<1>5. CASE pages[1].state = "failed"
  <2>1. pc' = "failed" /\ end' = end /\ saved' = saved /\ cuts' = cuts
    BY <1>5 DEF Pages!BatchEnds
  <2>2. PagesTyped'
    BY <1>1, <1>2, <1>3, <2>1 DEF PagesTyped
  <2>3. Going' /\ Whole'
    BY <2>1 DEF Going, Whole
  <2> QED  BY <1>4, <2>2, <2>3 DEF PagesInv
<1>6. CASE pages[1].state # "failed"
  <2>1. PICK A, U, lo, hi : BatchOf(A, U, lo, hi)
    BY <1>1, <1>2, <1>6, BatchIsKnown
  <2>2. PICK K : K = saved \cup Pages!normalize_activity_batch
    OBVIOUS
  <2>3. K \subseteq 1 .. listed /\ Cardinality(K) \in Nat /\ Cardinality(K) <= limit
    BY <1>1, <1>2, <2>1, <2>2, BatchSaves
  <2>4. CASE /\ ~(Pages!reached_end \/ (end = 0 /\ Pages!RowCount >= limit))
             /\ Cardinality(K) < limit /\ Pages!Rows # {}
    <3>1. PICK o, c : o = Pages!oldest_timestamp /\ c = cuts \cup {o + 1}
      OBVIOUS
    <3>2. saved' = K /\ pc' = "ask" /\ end' = o /\ cuts' = c
      BY <1>6, <2>2, <2>4, <3>1, SameCount DEF Pages!BatchEnds
    <3>3. /\ o \in Nat \ {0} /\ Seconds[listed] > o /\ \A a \in K : Seconds[a] > o
          /\ Cardinality(Lost(K, o, c)) <= (listed - PagesListed) * (PageCount(limit) - 1)
      BY <1>1, <1>2, <2>1, <2>2, <2>4, <3>1, BatchGoes
    <3>4. PagesTyped'
      BY <1>1, <1>2, <1>3, <2>3, <2>4, <3>2, <3>3 DEF PagesTyped
    <3>5. Lost(saved, end, cuts)' = Lost(K, o, c)
      BY <3>2 DEF Lost
    <3>6. Going'
      BY <1>2, <1>3, <3>2, <3>3, <3>5 DEF Going
    <3>7. Whole'
      BY <3>2 DEF Whole
    <3> QED  BY <1>4, <3>4, <3>6, <3>7 DEF PagesInv
  <2>5. CASE ~(/\ ~(Pages!reached_end \/ (end = 0 /\ Pages!RowCount >= limit))
               /\ Cardinality(K) < limit /\ Pages!Rows # {})
    <3>1. saved' = K /\ pc' = "done" /\ end' = end /\ cuts' = cuts
      BY <1>6, <2>2, <2>5, SameCount DEF Pages!BatchEnds
    <3>2. \/ ~(Cardinality(K) < limit) \/ Pages!Rows = {}
          \/ Pages!reached_end \/ (end = 0 /\ Pages!RowCount >= limit)
      BY <2>5
    <3>3. Cardinality(Absent(limit, K, cuts)) <= (listed - PagesListed) * PageCount(limit)
      BY <1>1, <1>2, <2>1, <2>2, <3>2, BatchIsLast
    <3>4. PagesTyped'
      BY <1>1, <1>2, <1>3, <2>3, <3>1 DEF PagesTyped
    <3>5. Absent(limit, saved, cuts)' = Absent(limit, K, cuts)
      BY <1>2, <3>1 DEF Absent
    <3>6. Whole'
      BY <1>2, <1>3, <3>3, <3>5 DEF Whole
    <3>7. Going'
      BY <3>1 DEF Going
    <3> QED  BY <1>4, <3>4, <3>6, <3>7 DEF PagesInv
  <2> QED  BY <2>4, <2>5
<1> QED  BY <1>5, <1>6

LEMMA BeginsKeeps == ASSUME PagesInv, Pages!Begins PROVE PagesInv'
<1>1. PagesTyped /\ Answers /\ Going
  BY DEF PagesInv
<1>2. /\ pc = "ask" /\ pc' = "wait"
      /\ listed' = listed /\ limit' = limit /\ end' = end /\ saved' = saved /\ cuts' = cuts /\ pageFails' = pageFails
  BY DEF Pages!Begins
<1>3. pages' = [i \in 1 .. PageCount(limit - Cardinality(saved)) |-> Pages!Asked]
  BY SameCount DEF Pages!Begins, PageCount
<1>4. PS' = PS /\ PageCount(limit)' = PageCount(limit)
      /\ PageCount(limit - Cardinality(saved))' = PageCount(limit - Cardinality(saved))
  BY <1>2, SameSizes, SameBatch
<1>5. DOMAIN pages' = 1 .. PageCount(limit - Cardinality(saved)) /\ \A i \in DOMAIN pages' : pages'[i] = Pages!Asked
  BY <1>3
<1>6. PagesTyped'
  BY <1>1, <1>2, <1>4, <1>5 DEF PagesTyped
<1>7. Answers'
  BY <1>5 DEF Answers, PageOK, Pages!Asked
<1>8. Going'
  <2>1. Lost(saved, end, cuts)' = Lost(saved, end, cuts)
    BY <1>2 DEF Lost
  <2> QED  BY <1>1, <1>2, <1>4, <2>1 DEF Going
<1>9. Whole'
  BY <1>2 DEF Whole
<1> QED  BY <1>6, <1>7, <1>8, <1>9 DEF PagesInv

LEMMA AnswersKeeps == ASSUME PagesInv, NEW k, Pages!PageAnswers(k) PROVE PagesInv'
<1>1. PagesTyped /\ Answers /\ Going
  BY DEF PagesInv
<1>2. /\ pc = "wait" /\ k \in DOMAIN pages
      /\ pc' = pc /\ listed' = listed /\ limit' = limit /\ end' = end /\ saved' = saved /\ cuts' = cuts
  BY DEF Pages!PageAnswers
<1>3. PS' = PS /\ PageCount(limit)' = PageCount(limit)
      /\ PageCount(limit - Cardinality(saved))' = PageCount(limit - Cardinality(saved))
  BY <1>2, SameSizes, SameBatch
<1>4. pageFails' \in 0 .. PageFailures
  <2>1. \/ pageFails' = pageFails \/ (pageFails < PageFailures /\ pageFails' = pageFails + 1)
    BY DEF Pages!PageAnswers
  <2>2. pageFails \in 0 .. PageFailures /\ PageFailures \in Nat
    BY <1>1, PageConstants DEF PagesTyped
  <2> QED  BY <2>1, <2>2
<1>5. PICK r : pages' = [pages EXCEPT ![k] = r] /\ (r = Pages!fetch_activity_page(k) \/ r = Pages!Failed)
  <2>1. \/ pages' = [pages EXCEPT ![k] = Pages!fetch_activity_page(k)]
        \/ pages' = [pages EXCEPT ![k] = Pages!Failed]
    BY DEF Pages!PageAnswers
  <2> QED  BY <2>1
<1>6. PageOK(r, PS, k, listed, end)
  <2>1. CASE r = Pages!Failed
    BY <2>1 DEF PageOK
  <2>2. CASE r = Pages!fetch_activity_page(k)
    <3>1. k \in Nat \ {0} /\ limit \in Limits /\ listed \in DOMAIN Seconds /\ end \in Nat
      <4>1. PageCount(limit - Cardinality(saved)) \in Nat \ {0}
        <5>1. limit - Cardinality(saved) \in Nat \ {0}
          BY <1>1, <1>2, SavedCount
        <5> QED  BY <1>1, <5>1, PageCounts DEF PagesTyped
      <4>2. k \in 1 .. PageCount(limit - Cardinality(saved))
        BY <1>1, <1>2 DEF PagesTyped
      <4> QED  BY <1>1, <4>1, <4>2 DEF PagesTyped
    <3>2. listed \in Nat /\ PagesListed \in Nat /\ PagesListed <= listed
      BY <1>1, SavedCount DEF PagesTyped
    <3>3. PICK u \in Tops(listed, end) : u \in Nat /\ {a \in 1 .. listed : end = 0 \/ Seconds[a] <= end} = 1 .. u
      <4>1. CASE end = 0
        <5>1. {a \in 1 .. listed : end = 0 \/ Seconds[a] <= end} = 1 .. listed
          BY <4>1
        <5>2. listed \in Tops(listed, end)
          BY <3>2, <4>1 DEF Tops
        <5> QED  BY <3>2, <5>1, <5>2
      <4>2. CASE end # 0
        <5>1. PICK u \in 0 .. listed : Until(listed, end) = 1 .. u
          BY <3>1, FirstSeconds
        <5>2. u \in Tops(listed, end) /\ u \in Nat
          BY <3>2, <4>2, <5>1 DEF Tops
        <5>3. {a \in 1 .. listed : end = 0 \/ Seconds[a] <= end} = Until(listed, end)
          BY <4>2 DEF Until
        <5> QED  BY <5>1, <5>2, <5>3
      <4> QED  BY <4>1, <4>2
    <3>4. r.state = "answered" /\ r.rows = Slice(PS, u, k)
      BY <2>2, <3>1, <3>3, AskedPage
    <3> QED  BY <3>3, <3>4 DEF PageOK
  <2> QED  BY <1>5, <2>1, <2>2
<1>7. DOMAIN pages' = DOMAIN pages /\ \A i \in DOMAIN pages : pages'[i] = IF i = k THEN r ELSE pages[i]
  BY <1>2, <1>5
<1>8. PagesTyped'
  BY <1>1, <1>2, <1>3, <1>4, <1>7 DEF PagesTyped
<1>9. Answers'
  <2>1. \A i \in DOMAIN pages' : PageOK(pages'[i], PS, i, listed, end)
    BY <1>1, <1>6, <1>7 DEF Answers
  <2> QED  BY <1>2, <1>3, <2>1 DEF Answers, PageOK, Tops, Until
<1>10. Going'
  <2>1. Lost(saved, end, cuts)' = Lost(saved, end, cuts)
    BY <1>2 DEF Lost
  <2> QED  BY <1>1, <1>2, <1>3, <2>1 DEF Going
<1>11. Whole'
  BY <1>2 DEF Whole
<1> QED  BY <1>8, <1>9, <1>10, <1>11 DEF PagesInv

LEMMA TradesKeeps == ASSUME PagesInv, Pages!Trades PROVE PagesInv'
<1>1. PagesTyped /\ Answers /\ Going /\ Whole
  BY DEF PagesInv
<1>2. /\ listed + 1 \in DOMAIN Seconds /\ listed' = listed + 1
      /\ limit' = limit /\ pc' = pc /\ pages' = pages /\ end' = end /\ saved' = saved /\ cuts' = cuts
      /\ pageFails' = pageFails
  BY DEF Pages!Trades
<1>3. PS' = PS /\ PageCount(limit)' = PageCount(limit)
      /\ PageCount(limit - Cardinality(saved))' = PageCount(limit - Cardinality(saved))
  BY <1>2, SameSizes, SameBatch
<1>4. listed \in Nat /\ PagesListed \in Nat /\ PagesListed <= listed
  BY <1>1, SavedCount DEF PagesTyped
<1>5. PagesTyped'
  <2>1. saved \subseteq 1 .. listed + 1 /\ PagesListed <= listed + 1
    BY <1>1, <1>4 DEF PagesTyped
  <2> QED  BY <1>1, <1>2, <1>3, <2>1 DEF PagesTyped
\* The newest second does not fall.
<1>6. Seconds[listed] <= Seconds[listed + 1] /\ Seconds[listed] \in Nat /\ Seconds[listed + 1] \in Nat /\ end \in Nat
  <2>1. listed \in DOMAIN Seconds /\ end \in Nat /\ listed <= listed + 1
    BY <1>1, <1>4 DEF PagesTyped
  <2> QED  BY <1>2, <2>1, PageConstants
<1>7. ASSUME pc = "wait", NEW u \in Tops(listed, end) PROVE u \in Tops(listed + 1, end)
  <2>1. CASE end = 0
    BY <1>4, <1>7, <2>1 DEF Tops
  <2>2. CASE end # 0
    <3>1. Seconds[listed] > end
      BY <1>1, <1>7, <2>2 DEF Going
    <3>2. ~(Seconds[listed + 1] <= end)
      BY <1>6, <3>1
    <3>3. Until(listed + 1, end) = Until(listed, end)
      <4>1. \A a : a \in 1 .. listed + 1 <=> a \in 1 .. listed \/ a = listed + 1
        BY <1>4
      <4> QED  BY <3>2, <4>1 DEF Until
    <3>4. u \in 0 .. listed /\ 1 .. u = Until(listed, end)
      BY <1>7, <2>2 DEF Tops
    <3>5. u \in 0 .. listed + 1
      BY <1>4, <3>4
    <3> QED  BY <2>2, <3>3, <3>4, <3>5 DEF Tops
  <2> QED  BY <2>1, <2>2
<1>8. Answers'
  <2>1. CASE pc = "wait"
    <3>1. ASSUME NEW i \in DOMAIN pages PROVE PageOK(pages[i], PS, i, listed + 1, end)
      <4>1. PageOK(pages[i], PS, i, listed, end)
        BY <1>1 DEF Answers
      <4>2. \A u \in Tops(listed, end) : u \in Tops(listed + 1, end)
        BY <1>7, <2>1
      <4> QED  BY <4>1, <4>2 DEF PageOK
    <3> QED  BY <1>2, <1>3, <3>1 DEF Answers, PageOK, Tops, Until
  <2>2. CASE pc # "wait"
    <3>1. DOMAIN pages' = {}
      BY <1>1, <1>2, <2>2 DEF PagesTyped
    <3> QED  BY <3>1 DEF Answers
  <2> QED  BY <2>1, <2>2
<1>9. PICK d, p : d = listed - PagesListed /\ p = PageCount(limit)
  OBVIOUS
<1>10. /\ d \in Nat /\ p \in Nat \ {0} /\ listed' - PagesListed = d + 1
       /\ d * (p - 1) <= (d + 1) * (p - 1) /\ d * (p - 1) \in Nat /\ (d + 1) * (p - 1) \in Nat
       /\ d * p <= (d + 1) * p /\ d * p \in Nat /\ (d + 1) * p \in Nat
  <2>1. d \in Nat /\ p \in Nat \ {0}
    BY ONLY <1>1, <1>9, LossBounds
  <2>2. listed' - PagesListed = d + 1
    BY <1>2, <1>4, <1>9
  <2>3. PICK e, q : e = d + 1 /\ q = p - 1
    OBVIOUS
  <2>4. e \in Nat /\ d <= e /\ q \in Nat
    BY <2>1, <2>3
  <2>5. d * q <= e * q /\ d * q \in Nat /\ e * q \in Nat
    BY ONLY <2>1, <2>4, TimesGrows
  <2>6. d * p <= e * p /\ d * p \in Nat /\ e * p \in Nat
    BY ONLY <2>1, <2>4, TimesGrows
  <2> QED  BY ONLY <2>1, <2>2, <2>3, <2>5, <2>6
<1>11. \A n, k, e, c : /\ IsFiniteSet(Absent(n, k, c)) /\ Cardinality(Absent(n, k, c)) \in Nat
                       /\ Cardinality(Lost(k, e, c)) \in Nat
  <2>1. IsFiniteSet(1 .. PagesListed)
    <3>1. PagesListed \in Int /\ 1 \in Int
      BY <1>4
    <3> QED  BY <3>1, FS_Interval
  <2> SUFFICES ASSUME NEW n, NEW k, NEW e, NEW c
               PROVE  /\ IsFiniteSet(Absent(n, k, c)) /\ Cardinality(Absent(n, k, c)) \in Nat
                      /\ Cardinality(Lost(k, e, c)) \in Nat
    OBVIOUS
  <2>2. Absent(n, k, c) \subseteq 1 .. PagesListed /\ Lost(k, e, c) \subseteq 1 .. PagesListed
    BY DEF Absent, Lost
  <2>3. IsFiniteSet(Absent(n, k, c)) /\ IsFiniteSet(Lost(k, e, c))
    BY <2>1, <2>2, FS_Subset
  <2> QED  BY <2>3, FS_CardinalityType
<1>12. Going'
  <2>1. Lost(saved, end, cuts)' = Lost(saved, end, cuts)
    BY <1>2 DEF Lost
  <2>2. SUFFICES ASSUME pc \in {"ask", "wait"}
                 PROVE  /\ end = 0 => saved = {} /\ cuts = {}
                        /\ end # 0 => /\ Seconds[listed + 1] > end /\ \A a \in saved : Seconds[a] > end
                                      /\ Cardinality(Lost(saved, end, cuts)) <= (listed' - PagesListed) * (PageCount(limit) - 1)
    BY <1>2, <1>3, <2>1 DEF Going
  <2>3. end = 0 => saved = {} /\ cuts = {}
    BY <1>1, <2>2 DEF Going
  <2>4. ASSUME end # 0
        PROVE  /\ Seconds[listed + 1] > end /\ \A a \in saved : Seconds[a] > end
               /\ Cardinality(Lost(saved, end, cuts)) <= (listed' - PagesListed) * (PageCount(limit) - 1)
    <3>1. /\ Seconds[listed] > end /\ \A a \in saved : Seconds[a] > end
          /\ Cardinality(Lost(saved, end, cuts)) <= d * (p - 1)
      BY <1>1, <1>9, <2>2, <2>4 DEF Going
    <3>2. Seconds[listed + 1] > end
      BY <1>6, <3>1
    <3>3. PICK h : h = Cardinality(Lost(saved, end, cuts))
      OBVIOUS
    <3>4. h \in Nat
      BY ONLY <1>11, <3>3
    <3>5. PICK x, y : x = d * (p - 1) /\ y = (d + 1) * (p - 1)
      OBVIOUS
    <3>6. h <= x /\ x <= y /\ x \in Nat /\ y \in Nat
      BY ONLY <1>10, <3>1, <3>3, <3>5
    <3>7. h <= y
      BY ONLY <3>4, <3>6
    <3>8. Cardinality(Lost(saved, end, cuts)) <= (listed' - PagesListed) * (PageCount(limit) - 1)
      BY ONLY <1>9, <1>10, <3>3, <3>5, <3>7
    <3> QED  BY <3>1, <3>2, <3>8
  <2> QED  BY <2>3, <2>4
<1>13. Whole'
  <2>1. Absent(limit, saved, cuts)' = Absent(limit, saved, cuts)
    BY <1>2 DEF Absent
  <2>2. SUFFICES ASSUME pc = "done"
                 PROVE  Cardinality(Absent(limit, saved, cuts)) <= (listed' - PagesListed) * PageCount(limit)
    BY <1>2, <1>3, <2>1 DEF Whole
  <2>3. Cardinality(Absent(limit, saved, cuts)) <= d * p
    BY <1>1, <1>9, <2>2 DEF Whole
  <2>4. PICK h, x, y : h = Cardinality(Absent(limit, saved, cuts)) /\ x = d * p /\ y = (d + 1) * p
    OBVIOUS
  <2>5. h \in Nat
    BY ONLY <1>11, <2>4
  <2>6. h <= x /\ x <= y /\ x \in Nat /\ y \in Nat
    BY ONLY <1>10, <2>3, <2>4
  <2>7. h <= y
    BY ONLY <2>5, <2>6
  <2> QED  BY ONLY <1>9, <1>10, <2>4, <2>7
<1> QED  BY <1>5, <1>8, <1>12, <1>13 DEF PagesInv

LEMMA PagesKeep == ASSUME PagesInv, [Pages!Next]_pageVars PROVE PagesInv'
<1>1. CASE Pages!Begins
  BY <1>1, BeginsKeeps
<1>2. CASE Pages!BatchEnds
  BY <1>2, BatchEndsKeeps
<1>3. CASE Pages!Trades
  BY <1>3, TradesKeeps
<1>4. CASE \E i \in 1 .. Parallel : Pages!PageAnswers(i)
  BY <1>4, AnswersKeeps
<1>5. CASE UNCHANGED pageVars
  <2>1. /\ listed' = listed /\ limit' = limit /\ pc' = pc /\ pages' = pages /\ end' = end
        /\ saved' = saved /\ cuts' = cuts /\ pageFails' = pageFails
    BY <1>5 DEF pageVars
  <2>2. PS' = PS /\ PageCount(limit)' = PageCount(limit)
        /\ PageCount(limit - Cardinality(saved))' = PageCount(limit - Cardinality(saved))
    BY <2>1, SameSizes, SameBatch
  <2>3. PagesTyped'
    BY <2>1, <2>2 DEF PagesInv, PagesTyped
  <2>4. Answers'
    BY <2>1, <2>2 DEF PagesInv, Answers, PageOK, Tops, Until
  <2>5. Lost(saved, end, cuts)' = Lost(saved, end, cuts) /\ Absent(limit, saved, cuts)' = Absent(limit, saved, cuts)
    BY <2>1 DEF Lost, Absent
  <2>6. Going' /\ Whole'
    BY <2>1, <2>2, <2>5 DEF PagesInv, Going, Whole
  <2> QED  BY <2>3, <2>4, <2>6 DEF PagesInv
<1> QED  BY <1>1, <1>2, <1>3, <1>4, <1>5 DEF Pages!Next

\* The invariant says what the properties of the module say.
LEMMA PagesProperties == ASSUME PagesInv PROVE Pages!TypeOK /\ Pages!DownloadIsWhole
<1>1. PagesTyped /\ Answers /\ Whole
  BY DEF PagesInv
<1>2. listed \in Nat /\ PagesListed \in Nat /\ limit \in Nat /\ limit \in Limits
  BY <1>1, SavedCount DEF PagesTyped
<1>3. Pages!DownloadIsWhole
  <2>1. Pages!Latest(limit, 1 .. PagesListed) = {a \in 1 .. PagesListed : PagesListed - limit < a}
    BY <1>2, LatestOfFirst
  <2>2. {a \in Pages!Missing : Seconds[a] \notin cuts} = Absent(limit, saved, cuts)
    BY <2>1 DEF Pages!Missing, Absent
  <2> QED  BY <1>1, <2>2, SameCount DEF Whole, Pages!DownloadIsWhole, PageCount
<1>4. ASSUME NEW i \in DOMAIN pages
      PROVE  pages[i].state \in {"asked", "failed", "answered"} /\ pages[i].rows \subseteq 1 .. listed
  <2>1. PageOK(pages[i], PS, i, listed, end)
    BY <1>1 DEF Answers
  <2>2. CASE pages[i] = Pages!Asked
    BY <2>2 DEF Pages!Asked
  <2>3. CASE pages[i] = Pages!Failed
    BY <2>3 DEF Pages!Failed
  <2>4. ASSUME pages[i].state = "answered", NEW u \in Tops(listed, end), pages[i].rows = Slice(PS, u, i)
        PROVE  pages[i].state \in {"asked", "failed", "answered"} /\ pages[i].rows \subseteq 1 .. listed
    <3>1. u \in Nat /\ u <= listed
      BY <1>2 DEF Tops
    <3>2. pages[i].rows \subseteq 1 .. u
      BY <2>4 DEF Slice
    <3> QED  BY <1>2, <2>4, <3>1, <3>2
  <2> QED  BY <2>1, <2>2, <2>3, <2>4 DEF PageOK
<1>5. Pages!TypeOK
  BY <1>1, <1>4, SameCount DEF Pages!TypeOK, PagesTyped
<1> QED  BY <1>3, <1>5

-----------------------------------------------------------------------------
(* The models in one specification *)

Everything == <<model, vars, reportVars, pageVars, ledgerVars>>
Models     == NotifyModels \cup {"analyses", "readers", "pages", "ledger"}

LEMMA ModelSteps ==
  ASSUME [MCNext]_Everything
  PROVE  /\ model' = model
         /\ [Next]_vars /\ [Reports!Next]_reportVars /\ [Pages!Next]_pageVars /\ [Ledger!Next]_ledgerVars
<1>1. CASE UNCHANGED Everything
  BY <1>1 DEF Everything
<1>2. CASE NotifyNext /\ UNCHANGED <<reportVars, pageVars, ledgerVars>> /\ UNCHANGED model
  BY <1>2 DEF NotifyNext
<1>3. CASE Reports!Next /\ UNCHANGED <<vars, pageVars, ledgerVars>> /\ UNCHANGED model
  BY <1>3
<1>4. CASE Pages!Next /\ UNCHANGED <<vars, reportVars, ledgerVars>> /\ UNCHANGED model
  BY <1>4
<1>5. CASE Ledger!Next /\ UNCHANGED <<vars, reportVars, pageVars>> /\ UNCHANGED model
  BY <1>5
<1> QED  BY <1>1, <1>2, <1>3, <1>4, <1>5 DEF MCNext

\* A run of the models together is a run of each: what is proved of a module holds in every run
\* that TLC explores, for every value of the constants.
THEOREM ModelsAreRuns == MCSpec => Spec /\ Reports!Spec /\ Pages!Spec /\ Ledger!Spec
<1>1. MCInit => Init /\ Reports!Init /\ Pages!Init /\ Ledger!Init
  BY DEF MCInit
<1>2. [MCNext]_Everything => [Next]_vars /\ [Reports!Next]_reportVars /\ [Pages!Next]_pageVars /\ [Ledger!Next]_ledgerVars
  BY ModelSteps
<1>3. [Reports!Next]_reportVars => [Reports!Next]_(Reports!vars)
  BY DEF reportVars, Reports!vars
<1>4. [Pages!Next]_pageVars => [Pages!Next]_(Pages!vars)
  BY DEF pageVars, Pages!vars
<1>5. [Ledger!Next]_ledgerVars => [Ledger!Next]_(Ledger!vars)
  BY DEF ledgerVars, Ledger!vars
<1> QED  BY <1>1, <1>2, <1>3, <1>4, <1>5, PTL DEF MCSpec, Everything, Spec, Reports!Spec, Pages!Spec, Ledger!Spec

LEMMA PagesSpec == Pages!Spec => []PagesInv
<1>1. Pages!Init => PagesInv
  BY PagesStart
<1>2. PagesInv /\ [Pages!Next]_(Pages!vars) => PagesInv'
  <2>1. [Pages!Next]_(Pages!vars) => [Pages!Next]_pageVars
    BY DEF pageVars, Pages!vars
  <2> QED  BY <2>1, PagesKeep
<1> QED  BY <1>1, <1>2, PTL DEF Pages!Spec

\* A download that ends well has the newest activities that existed when it began, but for those
\* of a second in which a batch ended and, for each trade meanwhile, one at each boundary of the
\* first pages and one whose place was taken: for every page size, limit, number of pages at once
\* and every series of trades and failures.
THEOREM DownloadIsWhole_holds == Pages!Spec => []DownloadIsWhole
<1>1. PagesInv => DownloadIsWhole
  BY PagesProperties DEF DownloadIsWhole
<1> QED  BY <1>1, PagesSpec, PTL

\* The variables have their types in every run of the models together.
THEOREM TypesOK_holds == MCSpec => []TypesOK
<1>1. Spec => [](Inv /\ TypeInv)
  <2>1. Init => Inv /\ TypeInv
    BY NotifyStarts
  <2>2. Inv /\ TypeInv /\ [Next]_vars => Inv' /\ TypeInv'
    BY NotifyTyped, Next_Inv
  <2> QED  BY <2>1, <2>2, PTL DEF Spec
<1>2. Reports!Spec => []ReportsInv
  BY ReportsStart, ReportsKeep, PTL DEF Reports!Spec
<1>3. Ledger!Spec => []LedgerInv
  BY LedgerStarts, LedgerKeeps, PTL DEF Ledger!Spec
<1>4. MCSpec => [](model \in Models)
  <2>1. MCInit => model \in Models
    BY DEF MCInit, Models
  <2>2. model \in Models /\ [MCNext]_Everything => (model \in Models)'
    BY ModelSteps DEF Models, NotifyModels
  <2> QED  BY <2>1, <2>2, PTL DEF MCSpec, Everything
<1>5. Inv /\ TypeInv /\ ReportsInv /\ PagesInv /\ LedgerInv /\ model \in Models => TypesOK
  <2> SUFFICES ASSUME Inv, TypeInv, ReportsInv, PagesInv, LedgerInv, model \in Models PROVE TypesOK
    OBVIOUS
  <2>1. TypeOK /\ Reports!TypeOK /\ Pages!TypeOK /\ Ledger!TypeOK
    BY NotifyTypes, ReportsTypes, PagesProperties, LedgerTypes
  <2> QED  BY <2>1 DEF TypesOK, Models, NotifyModels
<1> QED  BY <1>1, <1>2, <1>3, <1>4, <1>5, PagesSpec, ModelsAreRuns, PTL

=============================================================================
