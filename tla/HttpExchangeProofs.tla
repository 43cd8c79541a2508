------------------------- MODULE HttpExchangeProofs -------------------------
(***************************************************************************)
(* What the ends of a WebSocket pair report, for channels of every         *)
(* capacity and programs of every length; and that headers come back from  *)
(* a fetch as they were written, for any names and spellings, values and   *)
(* number of operations.                                                   *)
(***************************************************************************)
EXTENDS HttpExchange, SequenceTheorems, TLAPS

(* The two ends.                                                           *)
LEMMA TwoEnds ==
  \A s \in Ends : /\ Other(s) \in Ends /\ Other(s) # s /\ Other(Other(s)) = s
                  /\ \A e \in Ends : e = s \/ e = Other(s)
BY DEF Ends, Other

(* A message pushed at the end of a queue is one more that was sent.       *)
LEMMA PushedIsSent ==
  ASSUME NEW a \in Seq(Nat), NEW b \in Seq(Nat), NEW m \in Nat
  PROVE  Append(a \o b, m) = a \o Append(b, m)
<1>0. <<m>> \in Seq(Nat)
  OBVIOUS
<1>1. PICK w \in Seq(Nat) : w = <<m>>
  BY <1>0
<1>2. Append(a \o b, m) = (a \o b) \o w /\ Append(b, m) = b \o w
  BY <1>1, AppendIsConcat
<1>3. (a \o b) \o w = a \o (b \o w)
  OBVIOUS
<1> QED
  BY <1>2, <1>3

(* The message at its head is the next one that is received.               *)
LEMMA PoppedIsNext ==
  ASSUME NEW a \in Seq(Nat), NEW b \in Seq(Nat), b # <<>>
  PROVE  /\ a \o b = Append(a, Head(b)) \o Tail(b)
         /\ Append(a, Head(b)) \in Seq(Nat) /\ Tail(b) \in Seq(Nat)
         /\ Len(Tail(b)) = Len(b) - 1
<1>1. /\ Head(b) \in Nat /\ Tail(b) \in Seq(Nat) /\ Len(Tail(b)) = Len(b) - 1
      /\ <<Head(b)>> \in Seq(Nat) /\ Append(a, Head(b)) \in Seq(Nat)
  OBVIOUS
<1>2. PICK w \in Seq(Nat) : w = <<Head(b)>>
  BY <1>1
<1>3. PICK v \in Seq(Nat) : v = Tail(b)
  BY <1>1
<1>4. b = w \o v /\ Append(a, Head(b)) = a \o w
  BY <1>1, <1>2, <1>3, AppendIsConcat
<1>5. (a \o w) \o v = a \o (w \o v)
  BY SMTT(30)
<1> QED
  BY <1>1, <1>3, <1>4, <1>5

(* What was received first is a prefix.                                    *)
LEMMA ReceivedIsPrefix ==
  ASSUME NEW a \in Seq(Nat), NEW b \in Seq(Nat)
  PROVE  Len(a) <= Len(a \o b) /\ a = SubSeq(a \o b, 1, Len(a))
OBVIOUS

(* A message that is no longer under way leaves messages.                  *)
LEMMA WithoutIsSeq ==
  ASSUME NEW q \in Seq(Nat), NEW k \in DOMAIN q
  PROVE  Without(q, k) \in Seq(Nat) /\ q[k] \in Nat
<1>1. k \in 1..Len(q) /\ Len(q) \in Nat /\ q[k] \in Nat
  OBVIOUS
<1>2. SubSeq(q, 1, k - 1) \in Seq(Nat)
  BY <1>1
<1>3. SubSeq(q, k + 1, Len(q)) \in Seq(Nat)
  BY <1>1
<1> QED
  BY SMTT(30), <1>1, <1>2, <1>3 DEF Without

-----------------------------------------------------------------------------
SocketTypes ==
  /\ waiting \in [Ends -> Seq(Nat)] /\ queue \in [Ends -> Seq(Nat)]
  /\ sent \in [Ends -> Seq(Nat)] /\ got \in [Ends -> Seq(Nat)]
  /\ started \in [Ends -> Nat]
  /\ receiving \in [Ends -> BOOLEAN] /\ open \in [Ends -> BOOLEAN]
  /\ refused \in [Ends -> BOOLEAN] /\ ended \in [Ends -> BOOLEAN]

(* What end s can receive, and what it did: while it is there, nothing of  *)
(* what its peer sent is lost; once it is dropped, nothing is under way    *)
(* and its channel is empty; a recv that returned None left nothing.       *)
Reception(s) ==
  /\ open[s] => sent[Other(s)] = got[s] \o queue[Other(s)]
  /\ ~open[s] => /\ InOrder(s) /\ queue[Other(s)] = <<>>
                 /\ waiting[s] = <<>> /\ ~receiving[s]
  /\ receiving[s] => waiting[s] = <<>>
  /\ ended[s] => got[s] = sent[Other(s)] /\ queue[Other(s)] = <<>> /\ ~open[Other(s)]
  /\ refused[s] => ~open[Other(s)]
  /\ Len(queue[s]) <= Capacity

PairInv ==
  /\ SocketTypes
  /\ phase = "building" => SocketInit
  /\ \A s \in Ends : Reception(s)

(* The inductive invariant implies what is to be shown.                    *)
LEMMA PairInvReports == PairInv => ReportsAreTrue
<1> SUFFICES ASSUME PairInv, NEW s \in Ends
             PROVE  /\ InOrder(s)
                    /\ ended[s] => got[s] = sent[Other(s)]
                    /\ refused[s] => ~open[Other(s)]
  BY DEF ReportsAreTrue
<1>1. Reception(s) /\ Other(s) \in Ends
  BY TwoEnds DEF PairInv
<1>2. got[s] \in Seq(Nat) /\ queue[Other(s)] \in Seq(Nat) /\ open[s] \in BOOLEAN
  BY <1>1 DEF PairInv, SocketTypes
<1>3. InOrder(s)
  <2>1. CASE open[s]
    BY <1>1, <1>2, <2>1, ReceivedIsPrefix DEF Reception, InOrder
  <2>2. CASE ~open[s]
    BY <1>1, <2>2 DEF Reception
  <2> QED
    BY <2>1, <2>2
<1> QED
  BY <1>1, <1>3 DEF Reception

-----------------------------------------------------------------------------
(* The ends are made and nothing was said yet.                             *)
LEMMA PairInvInit == Init => PairInv
<1> SUFFICES ASSUME Init PROVE PairInv
  OBVIOUS
<1>1. SocketInit
  BY DEF Init
<1>2. SocketTypes
  BY <1>1, EmptySeq DEF SocketInit, SocketTypes
<1>3. ASSUME NEW s \in Ends PROVE Reception(s)
  <2>1. /\ ~open[s] /\ ~receiving[s] /\ ~ended[s] /\ ~refused[s]
        /\ queue[s] = <<>> /\ queue[Other(s)] = <<>> /\ waiting[s] = <<>>
        /\ got[s] = <<>> /\ sent[Other(s)] = <<>>
    BY <1>1, <1>3, TwoEnds DEF SocketInit
  <2>2. InOrder(s)
    BY <2>1 DEF InOrder
  <2> QED
    BY <2>1, <2>2, CapacityAssumption DEF Reception
<1> QED
  BY <1>1, <1>2, <1>3 DEF PairInv

(* A pair of sockets in its initial state.                                 *)
LEMMA NewPairKeeps == ASSUME SocketInit, NewPair PROVE SocketTypes' /\ \A s \in Ends : Reception(s)'
<1>1. SocketTypes'
  BY EmptySeq DEF SocketInit, NewPair, SocketTypes
<1>2. ASSUME NEW s \in Ends PROVE Reception(s)'
  <2>1. /\ open'[s] /\ open'[Other(s)] /\ ~receiving'[s] /\ ~ended'[s] /\ ~refused'[s]
        /\ queue'[s] = <<>> /\ queue'[Other(s)] = <<>> /\ waiting'[s] = <<>>
        /\ got'[s] = <<>> /\ sent'[Other(s)] = <<>>
    BY <1>2, TwoEnds DEF SocketInit, NewPair
  <2> QED
    BY <2>1, CapacityAssumption DEF Reception
<1> QED
  BY <1>1, <1>2

-----------------------------------------------------------------------------
(* A step of either end keeps what both can receive.                       *)
LEMMA SocketKeeps ==
  ASSUME SocketTypes, \A e \in Ends : Reception(e), NEW s \in Ends,
         Send(s) \/ CancelSend(s) \/ Recv(s) \/ CancelRecv(s) \/ Drop(s) \/ Finish(s)
  PROVE  SocketTypes' /\ \A e \in Ends : Reception(e)'
<1> USE CapacityAssumption
<1> DEFINE o == Other(s)
<1>0. o \in Ends /\ o # s /\ Other(o) = s /\ \A e \in Ends : e = s \/ e = o
  BY TwoEnds
<1>T. /\ queue[s] \in Seq(Nat) /\ queue[o] \in Seq(Nat)
      /\ waiting[s] \in Seq(Nat) /\ waiting[o] \in Seq(Nat)
      /\ sent[s] \in Seq(Nat) /\ got[s] \in Seq(Nat)
      /\ sent[o] \in Seq(Nat) /\ got[o] \in Seq(Nat)
      /\ started[s] \in Nat
  BY <1>0 DEF SocketTypes
<1>R. Reception(s) /\ Reception(o)
  BY <1>0
<1>Q. SUFFICES SocketTypes' /\ Reception(s)' /\ Reception(o)'
  BY <1>0
<1> HIDE DEF o
<1>1. CASE Send(s)
  <2>1. Append(waiting[s], started[s] + 1) \in Seq(Nat) /\ started[s] + 1 \in Nat
    BY <1>T
  <2>2. /\ waiting' \in [Ends -> Seq(Nat)] /\ started' \in [Ends -> Nat]
        /\ waiting'[o] = waiting[o] /\ open[s] /\ ~receiving[s]
        /\ UNCHANGED <<queue, receiving, open, sent, got, refused, ended>>
    BY <1>1, <1>0, <2>1 DEF Send, SocketTypes
  <2> QED
    BY <1>0, <1>R, <2>2 DEF Reception, InOrder, SocketTypes, o
<1>2. CASE CancelSend(s)
  <2>1. PICK k \in DOMAIN waiting[s] : waiting' = [waiting EXCEPT ![s] = Without(@, k)]
    BY <1>2 DEF CancelSend
  <2>0. Without(waiting[s], k) \in Seq(Nat) /\ waiting[s] # <<>>
    BY <1>T, WithoutIsSeq
  <2>2. /\ waiting' \in [Ends -> Seq(Nat)] /\ waiting'[o] = waiting[o]
        /\ UNCHANGED <<queue, receiving, open, started, sent, got, refused, ended>>
    BY <1>2, <1>0, <2>0, <2>1 DEF CancelSend, SocketTypes
  <2> QED
    BY <1>0, <1>R, <2>0, <2>2 DEF Reception, InOrder, SocketTypes, o
<1>3. CASE Recv(s) \/ CancelRecv(s)
  <2>1. /\ receiving' \in [Ends -> BOOLEAN] /\ receiving'[o] = receiving[o]
        /\ receiving'[s] => open[s] /\ waiting[s] = <<>>
        /\ UNCHANGED <<waiting, queue, open, started, sent, got, refused, ended>>
    BY <1>3, <1>0, <1>R DEF Recv, CancelRecv, SocketTypes, Reception
  <2> QED
    BY <1>0, <1>R, <2>1 DEF Reception, InOrder, SocketTypes, o
<1>4. CASE Drop(s)
  <2>1. /\ queue' \in [Ends -> Seq(Nat)] /\ open' \in [Ends -> BOOLEAN]
        /\ queue'[o] = <<>> /\ queue'[s] = queue[s]
        /\ ~open'[s] /\ open'[o] = open[o]
        /\ open[s] /\ ~receiving[s] /\ waiting[s] = <<>>
        /\ UNCHANGED <<waiting, receiving, started, sent, got, refused, ended>>
    BY <1>4, <1>0, EmptySeq DEF Drop, Source, SocketTypes, o
  <2>2. sent[o] = got[s] \o queue[o]
    BY <1>R, <2>1 DEF Reception, o
  <2>3. InOrder(s)
    BY <1>T, <2>2, ReceivedIsPrefix DEF InOrder, o
  <2>4. Len(queue'[o]) <= Capacity
    <3>1. Len(queue'[o]) = 0
      BY <2>1
    <3> QED
      BY <3>1
  <2>5. SocketTypes'
    BY <2>1 DEF SocketTypes
  <2>6. Reception(s)'
    BY <1>0, <1>R, <2>1, <2>3 DEF Reception, InOrder, o
  <2>7. Reception(o)'
    BY <1>0, <1>R, <2>1, <2>4 DEF Reception, InOrder
  <2> QED
    BY <2>5, <2>6, <2>7
<1>5. CASE SendOk(s)
  <2>1. PICK k \in Granted(s) :
          /\ queue' = [queue EXCEPT ![s] = Append(@, waiting[s][k])]
          /\ sent' = [sent EXCEPT ![s] = Append(@, waiting[s][k])]
          /\ waiting' = [waiting EXCEPT ![s] = Without(@, k)]
    BY <1>5 DEF SendOk
  <2>2. /\ k \in DOMAIN waiting[s] /\ waiting[s] # <<>>
        /\ Len(queue[s]) < Capacity
    BY <1>T, <2>1 DEF Granted
  <2> DEFINE m == waiting[s][k]
  <2>3. m \in Nat /\ Without(waiting[s], k) \in Seq(Nat)
    BY <1>T, <2>2, WithoutIsSeq
  <2> HIDE DEF m
  <2>4. /\ Append(queue[s], m) \in Seq(Nat) /\ Append(sent[s], m) \in Seq(Nat)
        /\ Len(Append(queue[s], m)) <= Capacity
    BY <1>T, <2>2, <2>3
  <2>5. /\ queue' \in [Ends -> Seq(Nat)] /\ sent' \in [Ends -> Seq(Nat)]
        /\ waiting' \in [Ends -> Seq(Nat)]
        /\ queue'[s] = Append(queue[s], m) /\ queue'[o] = queue[o]
        /\ sent'[s] = Append(sent[s], m) /\ sent'[o] = sent[o]
        /\ waiting'[o] = waiting[o] /\ open[o]
        /\ UNCHANGED <<receiving, open, started, got, refused, ended>>
    BY <1>5, <1>0, <2>1, <2>3, <2>4 DEF SendOk, SocketTypes, m, o
  <2>6. sent[s] = got[o] \o queue[s]
    BY <1>0, <1>R, <2>5 DEF Reception
  <2>7. sent'[s] = got[o] \o queue'[s]
    <3>1. PICK a, b : a = got[o] /\ b = queue[s]
      OBVIOUS
    <3>2. a \in Seq(Nat) /\ b \in Seq(Nat)
      BY <1>T, <3>1
    <3>3. Append(a \o b, m) = a \o Append(b, m)
      BY <2>3, <3>2, PushedIsSent
    <3> QED
      BY <2>5, <2>6, <3>1, <3>3
  <2> QED
    BY <1>0, <1>R, <2>2, <2>4, <2>5, <2>7 DEF Reception, InOrder, SocketTypes, o
<1>6. CASE SendErr(s)
  <2>1. PICK k \in DOMAIN waiting[s] : waiting' = [waiting EXCEPT ![s] = Without(@, k)]
    BY <1>6 DEF SendErr
  <2>0. Without(waiting[s], k) \in Seq(Nat) /\ waiting[s] # <<>>
    BY <1>T, WithoutIsSeq
  <2>2. /\ waiting' \in [Ends -> Seq(Nat)] /\ waiting'[o] = waiting[o]
        /\ refused' \in [Ends -> BOOLEAN] /\ refused'[o] = refused[o] /\ ~open[o]
        /\ UNCHANGED <<queue, receiving, open, started, sent, got, ended>>
    BY <1>6, <1>0, <2>0, <2>1 DEF SendErr, SocketTypes, o
  <2> QED
    BY <1>0, <1>R, <2>0, <2>2 DEF Reception, InOrder, SocketTypes, o
<1>7. CASE RecvSome(s)
  <2>1. receiving[s] /\ queue[o] # <<>> /\ open[s] /\ waiting[s] = <<>>
    BY <1>7, <1>R DEF RecvSome, Source, Reception, o
  <2>2. /\ got[s] \o queue[o] = Append(got[s], Head(queue[o])) \o Tail(queue[o])
        /\ Append(got[s], Head(queue[o])) \in Seq(Nat) /\ Tail(queue[o]) \in Seq(Nat)
        /\ Len(Tail(queue[o])) = Len(queue[o]) - 1 /\ Len(queue[o]) \in Nat
    <3>1. PICK a, b : a = got[s] /\ b = queue[o]
      OBVIOUS
    <3>2. a \in Seq(Nat) /\ b \in Seq(Nat) /\ b # <<>>
      BY <1>T, <2>1, <3>1
    <3>3. /\ a \o b = Append(a, Head(b)) \o Tail(b)
          /\ Append(a, Head(b)) \in Seq(Nat) /\ Tail(b) \in Seq(Nat)
          /\ Len(Tail(b)) = Len(b) - 1 /\ Len(b) \in Nat
      BY <3>2, PoppedIsNext, LenProperties
    <3> QED
      BY <3>1, <3>3
  <2>3. /\ got' \in [Ends -> Seq(Nat)] /\ queue' \in [Ends -> Seq(Nat)]
        /\ receiving' \in [Ends -> BOOLEAN]
        /\ got'[s] = Append(got[s], Head(queue[o])) /\ got'[o] = got[o]
        /\ queue'[o] = Tail(queue[o]) /\ queue'[s] = queue[s]
        /\ ~receiving'[s] /\ receiving'[o] = receiving[o]
        /\ UNCHANGED <<waiting, open, started, sent, refused, ended>>
    BY <1>7, <1>0, <2>2 DEF RecvSome, Source, SocketTypes, o
  <2>4. sent[o] = got[s] \o queue[o] /\ Len(queue[o]) <= Capacity
    BY <1>0, <1>R, <2>1 DEF Reception, o
  <2>5. sent[o] = got'[s] \o queue'[o]
    BY <2>2, <2>3, <2>4
  <2>6. Len(queue'[o]) <= Capacity
    BY <2>2, <2>3, <2>4
  <2>7. SocketTypes'
    BY <2>3 DEF SocketTypes
  <2>8. Reception(s)'
    BY <1>0, <1>R, <2>1, <2>3, <2>5 DEF Reception, o
  <2>9. Reception(o)'
    BY <1>0, <1>R, <2>1, <2>3, <2>6 DEF Reception, InOrder
  <2> QED
    BY <2>7, <2>8, <2>9
<1>8. CASE RecvNone(s)
  <2>1. /\ receiving[s] /\ open[s] /\ ~open[o] /\ queue[o] = <<>>
        /\ receiving' \in [Ends -> BOOLEAN] /\ ended' \in [Ends -> BOOLEAN]
        /\ ~receiving'[s] /\ receiving'[o] = receiving[o] /\ ended'[o] = ended[o]
        /\ UNCHANGED <<waiting, queue, open, started, sent, got, refused>>
    BY <1>8, <1>0, <1>R DEF RecvNone, Source, Reception, SocketTypes, o
  <2>2. got[s] = sent[o]
    BY <1>R, <1>T, <2>1, ConcatEmptySeq DEF Reception, o
  <2> QED
    BY <1>0, <1>R, <2>1, <2>2 DEF Reception, InOrder, SocketTypes, o
<1> QED
  BY <1>1, <1>2, <1>3, <1>4, <1>5, <1>6, <1>7, <1>8 DEF Finish

(* So does every step of the exchange; only an upgrade makes the ends.     *)
LEMMA PairInvNext == PairInv /\ [Next]_vars => PairInv'
<1> SUFFICES ASSUME PairInv, [Next]_vars PROVE PairInv'
  OBVIOUS
<1>1. SocketTypes /\ \A s \in Ends : Reception(s)
  BY DEF PairInv
<1>2. ASSUME UNCHANGED socketVars, phase' = "building" => phase = "building"
      PROVE  PairInv'
  BY <1>1, <1>2 DEF PairInv, socketVars, SocketTypes, SocketInit, Reception, InOrder
<1>3. CASE Accept
  BY <1>3, NewPairKeeps DEF Accept, PairInv
<1>4. CASE Socket
  <2>1. SocketTypes' /\ \A s \in Ends : Reception(s)'
    BY <1>1, <1>4, SocketKeeps DEF Socket, SocketNext
  <2>2. phase' = "upgraded"
    BY <1>4 DEF Socket, httpVars
  <2> QED
    BY <2>1, <2>2 DEF PairInv
<1>5. CASE WriteSome
  BY <1>2, <1>5 DEF WriteSome, Write
<1>6. CASE FetchStep
  BY <1>2, <1>6 DEF FetchStep, Fetch, AddLine, FetchSend, FetchFails, FetchAnswered,
                    CopyLine, FetchEnds
<1>8. CASE Ended \/ UNCHANGED vars
  BY <1>2, <1>8 DEF Ended, vars, httpVars, fetchVars
<1> QED
  BY <1>3, <1>4, <1>5, <1>6, <1>8 DEF Next

(* The types of a pair of sockets and what each end received of the other: *)
(* the inductive invariant of WebSocketPair in websocket.rs.               *)
THEOREM PairInvariant == Spec => []PairInv
BY PairInvInit, PairInvNext, PTL DEF Spec

(* What the calls of an end report is true, always.                        *)
THEOREM ReportsAlwaysTrue == Spec => []ReportsAreTrue
BY PairInvariant, PairInvReports, PTL

-----------------------------------------------------------------------------
(* Headers.  ListsValues says of a sequence which records its values come  *)
(* from; what follows is how that changes when the sequence or the records *)
(* do.                                                                     *)
LEMMA ListsNothing == \A r : ListsValues(<<>>, {}, r)
<1> SUFFICES ASSUME NEW r PROVE ListsValues(<<>>, {}, r)
  OBVIOUS
<1>1. [i \in 1 .. 0 |-> 0] \in [1 .. Len(<<>>) -> {}]
  OBVIOUS
<1> QED
  BY <1>1 DEF ListsValues

LEMMA ListsOne ==
  ASSUME NEW x, NEW k \in Nat, NEW r, r[k].value = x
  PROVE  ListsValues(<<x>>, {k}, r)
<1> DEFINE f == [i \in 1 .. 1 |-> k]
<1>1. f \in [1 .. Len(<<x>>) -> {k}]
  OBVIOUS
<1>2. \A p \in {k} : \E i \in 1 .. Len(<<x>>) : f[i] = p
  <2>1. 1 \in 1 .. Len(<<x>>) /\ f[1] = k
    OBVIOUS
  <2> QED
    BY <2>1
<1>3. \A i \in 1 .. Len(<<x>>) : <<x>>[i] = r[f[i]].value
  OBVIOUS
<1>4. \A i, j \in 1 .. Len(<<x>>) : i < j => f[i] < f[j]
  OBVIOUS
<1> HIDE DEF f
<1> QED
  BY <1>1, <1>2, <1>3, <1>4 DEF ListsValues

(* Other records with the same values at the places will do.               *)
LEMMA ListsElsewhere ==
  ASSUME NEW v, NEW S, NEW r, NEW q, ListsValues(v, S, r),
         \A p \in S : q[p].value = r[p].value
  PROVE  ListsValues(v, S, q)
BY DEF ListsValues

(* A value at the end, from a place after all others.                      *)
LEMMA ListsOneMore ==
  ASSUME NEW V, NEW v \in Seq(V), NEW x \in V, NEW S \in SUBSET Nat, NEW k \in Nat,
         NEW r, NEW q, ListsValues(v, S, r),
         \A p \in S : p < k /\ q[p].value = r[p].value,
         q[k].value = x
  PROVE  ListsValues(Append(v, x), S \cup {k}, q)
<1> DEFINE n == Len(v)
           w == Append(v, x)
<1>1. n \in Nat /\ Len(w) = n + 1 /\ w[n + 1] = x /\ \A i \in 1 .. n : w[i] = v[i]
  OBVIOUS
<1>2. PICK f \in [1 .. n -> S] :
        /\ \A i, j \in 1 .. n : i < j => f[i] < f[j]
        /\ \A p \in S : \E i \in 1 .. n : f[i] = p
        /\ \A i \in 1 .. n : v[i] = r[f[i]].value
  BY DEF ListsValues
<1> DEFINE g == [i \in 1 .. n + 1 |-> IF i = n + 1 THEN k ELSE f[i]]
<1> HIDE DEF n, w
<1>3. /\ g[n + 1] = k
      /\ \A i \in 1 .. n : g[i] = f[i] /\ f[i] \in S /\ i \in 1 .. n + 1
      /\ n + 1 \in 1 .. n + 1
      /\ \A i \in 1 .. n + 1 : i = n + 1 \/ i \in 1 .. n
  BY <1>1, <1>2
<1>4. g \in [1 .. n + 1 -> S \cup {k}]
  BY <1>1, <1>2
<1> HIDE DEF g
<1>5. \A i, j \in 1 .. n + 1 : i < j => g[i] < g[j]
  <2> SUFFICES ASSUME NEW i \in 1 .. n + 1, NEW j \in 1 .. n + 1, i < j PROVE g[i] < g[j]
    OBVIOUS
  <2>1. i \in 1 .. n
    BY <1>1
  <2>2. CASE j = n + 1
    BY <1>3, <2>1, <2>2
  <2>3. CASE j \in 1 .. n
    BY <1>2, <1>3, <2>1, <2>3
  <2> QED
    BY <1>3, <2>2, <2>3
<1>6. \A p \in S \cup {k} : \E i \in 1 .. n + 1 : g[i] = p
  <2> SUFFICES ASSUME NEW p \in S PROVE \E i \in 1 .. n + 1 : g[i] = p
    BY <1>3
  <2>1. PICK i \in 1 .. n : f[i] = p
    BY <1>2
  <2> QED
    BY <1>3, <2>1
<1>7. \A i \in 1 .. n + 1 : w[i] = q[g[i]].value
  <2> SUFFICES ASSUME NEW i \in 1 .. n + 1 PROVE w[i] = q[g[i]].value
    OBVIOUS
  <2>1. CASE i = n + 1
    BY <1>1, <1>3, <2>1
  <2>2. CASE i \in 1 .. n
    <3>1. w[i] = v[i] /\ v[i] = r[f[i]].value /\ g[i] = f[i] /\ f[i] \in S
      BY <1>1, <1>2, <1>3, <2>2
    <3> QED
      BY <3>1
  <2> QED
    BY <1>3, <2>1, <2>2
<1>8. ListsValues(w, S \cup {k}, q)
  <2>1. Len(w) = n + 1
    BY <1>1
  <2>2. g \in [1 .. Len(w) -> S \cup {k}]
    BY <1>4, <2>1
  <2>3. \A i, j \in 1 .. Len(w) : i < j => g[i] < g[j]
    BY <1>5, <2>1
  <2>4. \A p \in S \cup {k} : \E i \in 1 .. Len(w) : g[i] = p
    BY <1>6, <2>1
  <2>5. \A i \in 1 .. Len(w) : w[i] = q[g[i]].value
    BY <1>7, <2>1
  <2> QED
    BY <2>1, <2>2, <2>3, <2>4, <2>5 DEF ListsValues
<1> QED
  BY <1>8 DEF w

(* One sequence lists some records of w and some of l; what lists those of *)
(* the latter that are wanted lists those of the former that are.          *)
LEMMA ListsThrough ==
  ASSUME NEW V, NEW A, NEW v \in Seq(V), NEW u \in Seq(V),
         NEW S \in SUBSET Nat, NEW T \in SUBSET Nat, NEW w, NEW l,
         ListsValues(v, S, w), ListsValues(v, T, l),
         ListsValues(u, {t \in T : l[t].value \notin A}, l)
  PROVE  ListsValues(u, {s \in S : w[s].value \notin A}, w)
<1> DEFINE n == Len(v)
           m == Len(u)
           S1 == {s \in S : w[s].value \notin A}
           T1 == {t \in T : l[t].value \notin A}
<1>1. n \in Nat /\ m \in Nat
  OBVIOUS
<1>2. PICK h \in [1 .. n -> S] :
        /\ \A i, j \in 1 .. n : i < j => h[i] < h[j]
        /\ \A p \in S : \E i \in 1 .. n : h[i] = p
        /\ \A i \in 1 .. n : v[i] = w[h[i]].value
  BY DEF ListsValues
<1>3. PICK g \in [1 .. n -> T] :
        /\ \A i, j \in 1 .. n : i < j => g[i] < g[j]
        /\ \A p \in T : \E i \in 1 .. n : g[i] = p
        /\ \A i \in 1 .. n : v[i] = l[g[i]].value
  BY DEF ListsValues
<1>4. PICK f \in [1 .. m -> T1] :
        /\ \A i, j \in 1 .. m : i < j => f[i] < f[j]
        /\ \A p \in T1 : \E i \in 1 .. m : f[i] = p
        /\ \A i \in 1 .. m : u[i] = l[f[i]].value
  BY DEF ListsValues
<1> HIDE DEF n, m
<1> DEFINE e == [j \in 1 .. m |-> CHOOSE i \in 1 .. n : g[i] = f[j]]
           c == [j \in 1 .. m |-> h[e[j]]]
<1>5. \A j \in 1 .. m : e[j] \in 1 .. n /\ g[e[j]] = f[j]
  <2> SUFFICES ASSUME NEW j \in 1 .. m PROVE e[j] \in 1 .. n /\ g[e[j]] = f[j]
    OBVIOUS
  <2>1. f[j] \in T
    BY <1>4
  <2>2. \E i \in 1 .. n : g[i] = f[j]
    BY <1>3, <2>1
  <2> QED
    BY <2>2
<1> HIDE DEF e
<1>6. \A i, j \in 1 .. n : g[i] < g[j] => i < j
  <2> SUFFICES ASSUME NEW i \in 1 .. n, NEW j \in 1 .. n, g[i] < g[j], ~(i < j) PROVE FALSE
    OBVIOUS
  <2>1. g[i] \in Nat /\ g[j] \in Nat
    BY <1>3
  <2>2. i = j \/ j < i
    BY <1>1
  <2> QED
    BY <1>3, <2>1, <2>2
<1>7. \A i, j \in 1 .. n : g[i] = g[j] => i = j
  <2> SUFFICES ASSUME NEW i \in 1 .. n, NEW j \in 1 .. n, g[i] = g[j], i # j PROVE FALSE
    OBVIOUS
  <2>1. g[i] \in Nat /\ g[j] \in Nat
    BY <1>3
  <2>2. i < j \/ j < i
    BY <1>1
  <2> QED
    BY <1>3, <2>1, <2>2
<1>8. \A i \in 1 .. n : w[h[i]].value = l[g[i]].value
  BY <1>2, <1>3
<1>9. \A j \in 1 .. m : c[j] = h[e[j]] /\ c[j] \in S1
  <2> SUFFICES ASSUME NEW j \in 1 .. m PROVE c[j] = h[e[j]] /\ h[e[j]] \in S1
    OBVIOUS
  <2>1. f[j] \in T1
    BY <1>4
  <2>2. w[h[e[j]]].value = l[f[j]].value
    BY <1>5, <1>8
  <2> QED
    BY <1>2, <1>5, <2>1, <2>2
<1>10. c \in [1 .. m -> S1]
  BY <1>9
<1> HIDE DEF c
<1>11. \A i, j \in 1 .. m : i < j => c[i] < c[j]
  <2> SUFFICES ASSUME NEW i \in 1 .. m, NEW j \in 1 .. m, i < j PROVE c[i] < c[j]
    OBVIOUS
  <2>1. g[e[i]] < g[e[j]]
    BY <1>4, <1>5
  <2>2. e[i] < e[j]
    BY <1>5, <1>6, <2>1
  <2> QED
    BY <1>2, <1>5, <1>9, <2>2
<1>12. \A p \in S1 : \E j \in 1 .. m : c[j] = p
  <2> SUFFICES ASSUME NEW p \in S1 PROVE \E j \in 1 .. m : c[j] = p
    OBVIOUS
  <2>1. PICK i \in 1 .. n : h[i] = p
    BY <1>2
  <2>2. g[i] \in T1
    BY <1>3, <1>8, <2>1
  <2>3. PICK j \in 1 .. m : f[j] = g[i]
    BY <1>4, <2>2
  <2>4. e[j] = i
    BY <1>5, <1>7, <2>3
  <2> QED
    BY <1>9, <2>1, <2>4
<1>13. \A j \in 1 .. m : u[j] = w[c[j]].value
  <2> SUFFICES ASSUME NEW j \in 1 .. m PROVE u[j] = w[c[j]].value
    OBVIOUS
  <2>1. u[j] = l[g[e[j]]].value
    BY <1>4, <1>5
  <2> QED
    BY <1>5, <1>8, <1>9, <2>1
<1> HIDE DEF S1, T1
<1>14. ListsValues(u, S1, w)
  BY <1>10, <1>11, <1>12, <1>13 DEF ListsValues, m
<1> QED
  BY <1>14 DEF S1
-----------------------------------------------------------------------------
(* The inductive invariant of a request's headers.  HeadersComeBack speaks *)
(* of the end only; what leads there is one list in four places: the map   *)
(* of the request has what was written (WrittenInMap), the lines of a name *)
(* have what was taken from the map (MapOnWire), and the map of the        *)
(* response has what was copied from the lines (WireInResponse).           *)
Writes == [op : {"set", "append", "delete"}, key : Spellings, value : Values \cup {None}]

IsHeaders(h) ==
  /\ DOMAIN h \subseteq Spellings
  /\ \A n \in DOMAIN h : Lower[n] = n /\ h[n] \in Seq(Values)

HeaderTypes ==
  /\ IsHeaders(headers) /\ IsHeaders(response)
  /\ written \in Seq(Writes)
  /\ lines \in Seq([name : Spellings, value : Values])
  /\ \A i \in 1 .. Len(lines) : Lower[lines[i].name] = lines[i].name
  /\ added \in [Spellings -> Nat]
  /\ copied \in 0 .. Len(lines)

LinesOf(name) == {i \in 1 .. Len(lines) : lines[i].name = name}
CopiedOf(name) == {i \in LinesOf(name) : i <= copied /\ lines[i].value \notin Accented}
Taken(k) == SubSeq(ValuesOf(headers, k), 1, added[Lower[k]])

WrittenInMap(k) == ListsValues(ValuesOf(headers, k), GivenBy(Lower[k]), written)

MapOnWire(k) ==
  /\ added[Lower[k]] <= Len(ValuesOf(headers, k))
  /\ ListsValues(Taken(k), LinesOf(Lower[k]), lines)

WireInResponse(k) == ListsValues(ValuesOf(response, k), CopiedOf(Lower[k]), lines)

(* How far fetch is.                                                       *)
Progress ==
  /\ phase \in {"building", "upgraded"} => lines = <<>> /\ added = [n \in Spellings |-> 0]
  /\ phase \in {"sent", "copying", "answered"} => Unyielded(headers, added) = {}
  /\ phase = "answered" => copied = Len(lines)

HeadersInv ==
  /\ HeaderTypes
  /\ Progress
  /\ \A k \in Spellings : WrittenInMap(k) /\ MapOnWire(k) /\ WireInResponse(k)

(* What the operations do to the values of every name.                     *)
LEMMA ValuesAreSeq ==
  ASSUME NEW h, IsHeaders(h), NEW k \in Spellings
  PROVE  /\ ValuesOf(h, k) \in Seq(Values)
         /\ Lower[k] \in Spellings /\ Lower[Lower[k]] = Lower[k]
         /\ Lower[k] \notin DOMAIN h => ValuesOf(h, k) = <<>>
<1>1. <<>> \in Seq(Values)
  OBVIOUS
<1> QED
  BY <1>1, LowerAssumption DEF ValuesOf, HasHeader, IsHeaders

LEMMA AfterInsert ==
  ASSUME NEW h, IsHeaders(h), NEW name \in Spellings, Lower[name] = name,
         NEW values \in Seq(Values)
  PROVE  /\ IsHeaders(Insert(h, name, values))
         /\ \A k \in Spellings : ValuesOf(Insert(h, name, values), k) =
                                  IF Lower[k] = name THEN values ELSE ValuesOf(h, k)
BY DEF IsHeaders, Insert, ValuesOf, HasHeader

LEMMA AfterDelete ==
  ASSUME NEW h, IsHeaders(h), NEW key \in Spellings
  PROVE  /\ IsHeaders(DeleteHeader(h, key))
         /\ \A k \in Spellings : ValuesOf(DeleteHeader(h, key), k) =
                                  IF Lower[k] = Lower[key] THEN <<>> ELSE ValuesOf(h, k)
BY DEF IsHeaders, DeleteHeader, ValuesOf, HasHeader

LEMMA AfterAppend ==
  ASSUME NEW h, IsHeaders(h), NEW key \in Spellings, NEW v \in Values
  PROVE  /\ IsHeaders(AppendHeader(h, key, v))
         /\ \A k \in Spellings : ValuesOf(AppendHeader(h, key, v), k) =
                IF Lower[k] = Lower[key] THEN Append(ValuesOf(h, k), v) ELSE ValuesOf(h, k)
<1>1. ValuesOf(h, key) \in Seq(Values) /\ Lower[key] \in Spellings /\ Lower[Lower[key]] = Lower[key]
  BY ValuesAreSeq
<1>2. Append(ValuesOf(h, key), v) \in Seq(Values)
  BY <1>1
<1>3. \A k \in Spellings : Lower[k] = Lower[key] => ValuesOf(h, k) = ValuesOf(h, key)
  BY DEF ValuesOf, HasHeader
<1> DEFINE more == Append(ValuesOf(h, key), v)
<1>4. /\ IsHeaders(Insert(h, Lower[key], more))
      /\ \A k \in Spellings : ValuesOf(Insert(h, Lower[key], more), k) =
                               IF Lower[k] = Lower[key] THEN more ELSE ValuesOf(h, k)
  <2> HIDE DEF more
  <2> QED
    BY <1>1, <1>2, AfterInsert DEF more
<1>5. AppendHeader(h, key, v) = Insert(h, Lower[key], more)
  BY DEF AppendHeader
<1>6. ASSUME NEW k \in Spellings
      PROVE  ValuesOf(AppendHeader(h, key, v), k) =
                IF Lower[k] = Lower[key] THEN Append(ValuesOf(h, k), v) ELSE ValuesOf(h, k)
  <2>1. CASE Lower[k] = Lower[key]
    <3>1. more = Append(ValuesOf(h, k), v)
      BY <1>3, <2>1
    <3> HIDE DEF more
    <3> QED
      BY <1>4, <1>5, <2>1, <3>1
  <2>2. CASE Lower[k] # Lower[key]
    <3> HIDE DEF more
    <3> QED
      BY <1>4, <1>5, <2>2
  <2> QED
    BY <2>1, <2>2
<1> QED
  BY <1>4, <1>5, <1>6

LEMMA AfterSet ==
  ASSUME NEW h, IsHeaders(h), NEW key \in Spellings, NEW v \in Values
  PROVE  /\ IsHeaders(SetHeader(h, key, v))
         /\ \A k \in Spellings : ValuesOf(SetHeader(h, key, v), k) =
                IF Lower[k] = Lower[key] THEN <<v>> ELSE ValuesOf(h, k)
<1>1. Lower[key] \in Spellings /\ Lower[Lower[key]] = Lower[key] /\ <<v>> \in Seq(Values)
  BY ValuesAreSeq
<1> QED
  BY <1>1, AfterInsert DEF SetHeader

LEMMA NoHeadersYet == IsHeaders(NoHeaders) /\ \A k \in Spellings : ValuesOf(NoHeaders, k) = <<>>
BY DEF IsHeaders, NoHeaders, ValuesOf, HasHeader

(* Which operations gave a name its values, after one more.                *)
LEMMA GivenByNext ==
  ASSUME NEW w \in Writes, written \in Seq(Writes), written' = Append(written, w)
  PROVE  /\ Len(written) + 1 \in Nat /\ written' \in Seq(Writes)
         /\ written'[Len(written) + 1] = w
         /\ \A n : \A i \in GivenBy(n) : i < Len(written) + 1 /\ i \in Nat
                                          /\ written'[i] = written[i]
         /\ \A n : GivenBy(n)' =
              IF n # Lower[w.key] THEN GivenBy(n)
              ELSE CASE w.op = "set" -> {Len(written) + 1}
                     [] w.op = "append" -> GivenBy(n) \cup {Len(written) + 1}
                     [] w.op = "delete" -> {}
<1> DEFINE last == Len(written) + 1
<1>1. /\ Len(written) \in Nat /\ Len(written') = last /\ written'[last] = w
      /\ \A i \in 1 .. Len(written) : written'[i] = written[i]
      /\ written' \in Seq(Writes)
      /\ 1 .. last = (1 .. Len(written)) \cup {last} /\ last \notin 1 .. Len(written)
      /\ \A i \in 1 .. Len(written) : i < last /\ ~(last < i)
      /\ ~(last < last)
  OBVIOUS
<1>2. w.op \in {"set", "append", "delete"}
  BY DEF Writes
<1> HIDE DEF last
<1>3. ASSUME NEW n PROVE
        /\ \A i \in GivenBy(n) : i \in 1 .. Len(written)
        /\ \A i \in 1 .. Len(written) : i \in GivenBy(n)' <=>
             i \in GivenBy(n) /\ (Lower[w.key] = n => w.op = "append")
        /\ last \in GivenBy(n)' <=> Lower[w.key] = n /\ w.op # "delete"
        /\ \A i \in GivenBy(n)' : i \in 1 .. Len(written) \/ i = last
  <2>1. \A i \in GivenBy(n) : i \in 1 .. Len(written)
    BY DEF GivenBy
  <2>2. \A i \in GivenBy(n)' : i \in 1 .. Len(written) \/ i = last
    BY <1>1 DEF GivenBy
  <2>3. last \in GivenBy(n)' <=> Lower[w.key] = n /\ w.op # "delete"
    BY <1>1 DEF GivenBy
  <2>4. ASSUME NEW i \in 1 .. Len(written)
        PROVE  i \in GivenBy(n)' <=> i \in GivenBy(n) /\ (Lower[w.key] = n => w.op = "append")
    <3>1. i \in GivenBy(n)' <=>
            /\ Lower[written[i].key] = n /\ written[i].op # "delete"
            /\ \A j \in 1 .. last :
                 i < j /\ Lower[written'[j].key] = n => written'[j].op = "append"
      BY <1>1 DEF GivenBy
    <3>2. (\A j \in 1 .. last : i < j /\ Lower[written'[j].key] = n => written'[j].op = "append")
            <=> /\ \A j \in 1 .. Len(written) :
                     i < j /\ Lower[written[j].key] = n => written[j].op = "append"
                /\ Lower[w.key] = n => w.op = "append"
      BY <1>1
    <3> QED
      BY <3>1, <3>2 DEF GivenBy
  <2> QED
    BY <2>1, <2>2, <2>3, <2>4
<1>4. ASSUME NEW n PROVE GivenBy(n)' =
        IF n # Lower[w.key] THEN GivenBy(n)
        ELSE CASE w.op = "set" -> {last}
               [] w.op = "append" -> GivenBy(n) \cup {last}
               [] w.op = "delete" -> {}
  <2>1. CASE n # Lower[w.key]
    BY <1>3, <2>1
  <2>2. CASE n = Lower[w.key] /\ w.op = "set"
    BY <1>3, <2>2
  <2>3. CASE n = Lower[w.key] /\ w.op = "append"
    BY <1>3, <2>3
  <2>4. CASE n = Lower[w.key] /\ w.op = "delete"
    BY <1>3, <2>4
  <2> QED
    BY <1>2, <2>1, <2>2, <2>3, <2>4
<1>5. \A n : \A i \in GivenBy(n) : i < last /\ i \in Nat /\ written'[i] = written[i]
  BY <1>1, <1>3
<1>6. last \in Nat
  BY <1>1 DEF last
<1>7. \A n : GivenBy(n)' =
        IF n # Lower[w.key] THEN GivenBy(n)
        ELSE CASE w.op = "set" -> {last}
               [] w.op = "append" -> GivenBy(n) \cup {last}
               [] w.op = "delete" -> {}
  BY <1>4
<1> USE DEF last
<1> QED
  BY <1>1, <1>5, <1>6, <1>7
LEMMA HeadersInvInit == Init => HeadersInv
<1> SUFFICES ASSUME Init PROVE HeadersInv
  OBVIOUS
<1>1. /\ phase = "building" /\ headers = NoHeaders /\ response = NoHeaders
      /\ written = <<>> /\ lines = <<>> /\ Len(lines) = 0 /\ Len(written) = 0
      /\ added = [n \in Spellings |-> 0] /\ copied = 0
  BY DEF Init
<1>2. HeaderTypes
  BY <1>1, NoHeadersYet DEF HeaderTypes
<1>3. Progress
  BY <1>1 DEF Progress
<1>4. ASSUME NEW k \in Spellings
      PROVE  WrittenInMap(k) /\ MapOnWire(k) /\ WireInResponse(k)
  <2>1. /\ Lower[k] \in Spellings /\ ValuesOf(headers, k) = <<>> /\ ValuesOf(response, k) = <<>>
    BY <1>1, NoHeadersYet, ValuesAreSeq
  <2>2. GivenBy(Lower[k]) = {} /\ LinesOf(Lower[k]) = {} /\ CopiedOf(Lower[k]) = {}
    BY <1>1 DEF GivenBy, LinesOf, CopiedOf
  <2>3. Taken(k) = <<>> /\ added[Lower[k]] <= Len(ValuesOf(headers, k))
    BY <1>1, <2>1 DEF Taken
  <2> QED
    BY <2>1, <2>2, <2>3, ListsNothing DEF WrittenInMap, MapOnWire, WireInResponse
<1> QED
  BY <1>2, <1>3, <1>4 DEF HeadersInv

(* While a request is built nothing is on the wire.                        *)
LEMMA NothingOnWire ==
  ASSUME HeadersInv, phase = "building", IsHeaders(headers'), UNCHANGED fetchVars
  PROVE  \A k \in Spellings : MapOnWire(k)' /\ WireInResponse(k)'
<1> SUFFICES ASSUME NEW k \in Spellings PROVE MapOnWire(k)' /\ WireInResponse(k)'
  OBVIOUS
<1>1. lines = <<>> /\ added[Lower[k]] = 0 /\ lines' = lines /\ added' = added
      /\ Lower[k] \in Spellings
  BY ValuesAreSeq DEF HeadersInv, HeaderTypes, Progress, fetchVars
<1>2. ValuesOf(headers', k) \in Seq(Values)
  BY ValuesAreSeq
<1>3. WireInResponse(k)'
  BY DEF HeadersInv, WireInResponse, CopiedOf, LinesOf, fetchVars
<1>4. Taken(k)' = <<>> /\ LinesOf(Lower[k])' = {} /\ added'[Lower[k]] <= Len(ValuesOf(headers', k))
  BY <1>1, <1>2 DEF Taken, LinesOf
<1>5. MapOnWire(k)'
  BY <1>4, ListsNothing DEF MapOnWire
<1> QED
  BY <1>3, <1>5

(* An operation of the program is written to the map.                      *)
LEMMA WriteKeeps ==
  ASSUME HeadersInv, NEW op \in {"set", "append", "delete"}, NEW key \in Spellings,
         NEW v \in Values \cup {None}, op # "delete" => v \in Values, Write(op, key, v)
  PROVE  HeadersInv'
<1> DEFINE w == [op |-> op, key |-> key, value |-> v]
           last == Len(written) + 1
<1>1. /\ phase = "building" /\ phase' = "building" /\ UNCHANGED fetchVars
      /\ written' = Append(written, w) /\ w \in Writes
      /\ w.op = op /\ w.key = key /\ w.value = v
      /\ written \in Seq(Writes) /\ IsHeaders(headers)
  BY DEF Write, HeadersInv, HeaderTypes, Writes
<1> HIDE DEF w
<1>2. /\ last \in Nat /\ written' \in Seq(Writes) /\ written'[last] = w
      /\ \A n : \A i \in GivenBy(n) : i < last /\ i \in Nat /\ written'[i] = written[i]
      /\ \A n : GivenBy(n)' =
           IF n # Lower[w.key] THEN GivenBy(n)
           ELSE CASE w.op = "set" -> {last}
                  [] w.op = "append" -> GivenBy(n) \cup {last}
                  [] w.op = "delete" -> {}
  BY <1>1, GivenByNext
<1> HIDE DEF last
<1>3. /\ IsHeaders(headers')
      /\ \A k \in Spellings : ValuesOf(headers', k) =
           IF Lower[k] # Lower[key] THEN ValuesOf(headers, k)
           ELSE CASE op = "set" -> <<v>>
                  [] op = "append" -> Append(ValuesOf(headers, k), v)
                  [] op = "delete" -> <<>>
  <2>1. CASE op = "set"
    <3>1. headers' = SetHeader(headers, key, v) /\ v \in Values
      BY <2>1 DEF Write
    <3> QED
      BY <1>1, <2>1, <3>1, AfterSet
  <2>2. CASE op = "append"
    <3>1. headers' = AppendHeader(headers, key, v) /\ v \in Values
      BY <2>2 DEF Write
    <3> QED
      BY <1>1, <2>2, <3>1, AfterAppend
  <2>3. CASE op = "delete"
    <3>1. headers' = DeleteHeader(headers, key)
      BY <2>3 DEF Write
    <3> QED
      BY <1>1, <2>3, <3>1, AfterDelete
  <2> QED
    BY <2>1, <2>2, <2>3
<1>4. ASSUME NEW k \in Spellings PROVE WrittenInMap(k)'
  <2>1. ListsValues(ValuesOf(headers, k), GivenBy(Lower[k]), written)
    BY DEF HeadersInv, WrittenInMap
  <2>2. SUFFICES ListsValues(ValuesOf(headers', k), GivenBy(Lower[k])', written')
    BY DEF WrittenInMap
  <2>3. CASE Lower[k] # Lower[key]
    <3>1. ValuesOf(headers', k) = ValuesOf(headers, k) /\ GivenBy(Lower[k])' = GivenBy(Lower[k])
      BY <1>1, <1>2, <1>3, <2>3
    <3>2. \A p \in GivenBy(Lower[k]) : written'[p].value = written[p].value
      BY <1>2
    <3> QED
      BY <2>1, <3>1, <3>2, ListsElsewhere
  <2>4. CASE Lower[k] = Lower[key] /\ op = "set"
    <3>1. ValuesOf(headers', k) = <<v>> /\ GivenBy(Lower[k])' = {last}
      BY <1>1, <1>2, <1>3, <2>4
    <3>2. written'[last].value = v /\ last \in Nat
      BY <1>1, <1>2
    <3>3. ListsValues(<<v>>, {last}, written')
      BY <3>2, ListsOne
    <3> QED
      BY <3>1, <3>3
  <2>5. CASE Lower[k] = Lower[key] /\ op = "append"
    <3>1. /\ ValuesOf(headers', k) = Append(ValuesOf(headers, k), v) /\ v \in Values
          /\ GivenBy(Lower[k])' = GivenBy(Lower[k]) \cup {last}
      BY <1>1, <1>2, <1>3, <2>5
    <3>2. ValuesOf(headers, k) \in Seq(Values) /\ GivenBy(Lower[k]) \in SUBSET Nat
      BY <1>1, <1>2, ValuesAreSeq
    <3>3. \A p \in GivenBy(Lower[k]) : p < last /\ written'[p].value = written[p].value
      BY <1>2
    <3>4. written'[last].value = v /\ last \in Nat
      BY <1>1, <1>2
    <3> QED
      BY <2>1, <3>1, <3>2, <3>3, <3>4, ListsOneMore
  <2>6. CASE Lower[k] = Lower[key] /\ op = "delete"
    <3>1. ValuesOf(headers', k) = <<>> /\ GivenBy(Lower[k])' = {}
      BY <1>1, <1>2, <1>3, <2>6
    <3> QED
      BY <3>1, ListsNothing
  <2> QED
    BY <2>3, <2>4, <2>5, <2>6
<1>5. \A k \in Spellings : MapOnWire(k)' /\ WireInResponse(k)'
  BY <1>1, <1>3, NothingOnWire
<1>6. HeaderTypes'
  BY <1>1, <1>2, <1>3 DEF HeadersInv, HeaderTypes, fetchVars
<1>7. Progress'
  BY <1>1 DEF HeadersInv, Progress, fetchVars
<1> QED
  BY <1>4, <1>5, <1>6, <1>7 DEF HeadersInv

(* The request is dropped with an upgrade.                                 *)
LEMMA AcceptKeeps ==
  ASSUME HeadersInv, Accept PROVE HeadersInv'
<1>1. /\ phase = "building" /\ phase' = "upgraded" /\ headers' = NoHeaders /\ written' = <<>>
      /\ UNCHANGED fetchVars
  BY DEF Accept
<1>2. /\ IsHeaders(headers') /\ \A k \in Spellings : ValuesOf(headers', k) = <<>>
  BY <1>1, NoHeadersYet
<1>3. \A k \in Spellings : WrittenInMap(k)'
  <2>1. \A k \in Spellings : GivenBy(Lower[k])' = {}
    BY <1>1 DEF GivenBy
  <2> QED
    BY <1>2, <2>1, ListsNothing DEF WrittenInMap
<1>4. \A k \in Spellings : MapOnWire(k)' /\ WireInResponse(k)'
  BY <1>1, <1>2, NothingOnWire
<1>5. HeaderTypes'
  BY <1>1, <1>2 DEF HeadersInv, HeaderTypes, fetchVars
<1>6. Progress'
  BY <1>1 DEF HeadersInv, Progress, fetchVars
<1> QED
  BY <1>3, <1>4, <1>5, <1>6 DEF HeadersInv

LEMMA OneMoreTaken ==
  ASSUME NEW s \in Seq(Values), NEW n \in Nat, n + 1 \in 1 .. Len(s)
  PROVE  /\ SubSeq(s, 1, n) \in Seq(Values) /\ s[n + 1] \in Values
         /\ SubSeq(s, 1, n + 1) = Append(SubSeq(s, 1, n), s[n + 1])
OBVIOUS

(* A value goes on the wire.                                               *)
LEMMA AddLineKeeps ==
  ASSUME HeadersInv, NEW name \in Spellings, AddLine(name) PROVE HeadersInv'
<1> DEFINE next == added[name] + 1
           line == [name |-> name, value |-> headers[name][next]]
           last == Len(lines) + 1
<1>1. /\ phase = "adding" /\ UNCHANGED <<phase, headers, written, response, copied>>
      /\ lines' = Append(lines, line) /\ added' = [added EXCEPT ![name] = next]
      /\ name \in DOMAIN headers /\ added[name] < Len(headers[name])
  BY DEF AddLine, MayYield, Unyielded
<1>2. /\ Lower[name] = name /\ headers[name] \in Seq(Values) /\ added[name] \in Nat
      /\ ValuesOf(headers, name) = headers[name] /\ next \in 1 .. Len(headers[name])
      /\ lines \in Seq([name : Spellings, value : Values]) /\ added \in [Spellings -> Nat]
      /\ copied \in 0 .. Len(lines)
  BY <1>1 DEF HeadersInv, HeaderTypes, IsHeaders, ValuesOf, HasHeader
<1>3. line \in [name : Spellings, value : Values] /\ line.name = name
      /\ line.value = headers[name][next]
  BY <1>2
<1> HIDE DEF line
<1>4. /\ Len(lines) \in Nat /\ last \in Nat /\ Len(lines') = last /\ lines'[last] = line
      /\ \A i \in 1 .. Len(lines) : lines'[i] = lines[i] /\ i < last /\ i \in Nat
      /\ 1 .. last = (1 .. Len(lines)) \cup {last} /\ last \notin 1 .. Len(lines)
      /\ lines' \in Seq([name : Spellings, value : Values])
      /\ copied < last /\ copied \in 0 .. last
  BY <1>1, <1>2, <1>3
<1> HIDE DEF last
<1>5. /\ \A n : LinesOf(n)' = IF n = name THEN LinesOf(n) \cup {last} ELSE LinesOf(n)
      /\ \A n : LinesOf(n) \in SUBSET Nat
      /\ \A n : \A p \in LinesOf(n) : p < last /\ lines'[p] = lines[p]
      /\ \A n : CopiedOf(n)' = CopiedOf(n)
  <2>1. ASSUME NEW n PROVE LinesOf(n)' = IF n = name THEN LinesOf(n) \cup {last} ELSE LinesOf(n)
    BY <1>3, <1>4 DEF LinesOf
  <2>2. \A n : \A p \in LinesOf(n) : p \in 1 .. Len(lines)
    BY DEF LinesOf
  <2>3. ASSUME NEW n PROVE CopiedOf(n)' = CopiedOf(n)
    <3>1. \A p \in LinesOf(n) : lines'[p] = lines[p]
      BY <1>4, <2>2
    <3>2. ~(last <= copied)
      BY <1>2, <1>4
    <3> QED
      BY <1>1, <2>1, <3>1, <3>2 DEF CopiedOf
  <2> QED
    BY <1>4, <2>1, <2>2, <2>3
<1>6. ASSUME NEW k \in Spellings PROVE MapOnWire(k)'
  <2>1. /\ ListsValues(Taken(k), LinesOf(Lower[k]), lines)
        /\ added[Lower[k]] <= Len(ValuesOf(headers, k)) /\ Lower[k] \in Spellings
    BY ValuesAreSeq DEF HeadersInv, HeaderTypes, MapOnWire
  <2>2. CASE Lower[k] # name
    <3>1. added'[Lower[k]] = added[Lower[k]]
      BY <1>1, <1>2, <2>1, <2>2
    <3>2. Taken(k)' = Taken(k)
      BY <1>1, <3>1 DEF Taken
    <3>3. ListsValues(Taken(k), LinesOf(Lower[k]), lines')
      BY <1>5, <2>1, ListsElsewhere
    <3> QED
      BY <1>1, <1>5, <2>1, <2>2, <3>1, <3>2, <3>3 DEF MapOnWire
  <2>3. CASE Lower[k] = name
    <3>1. ValuesOf(headers, k) = headers[name] /\ added'[Lower[k]] = next
      BY <1>1, <1>2, <2>3 DEF ValuesOf, HasHeader
    <3>2. /\ Taken(k) \in Seq(Values) /\ line.value \in Values
          /\ Taken(k)' = Append(Taken(k), line.value)
      <4>1. Taken(k) = SubSeq(headers[name], 1, added[name])
        BY <2>3, <3>1 DEF Taken
      <4>2. Taken(k)' = SubSeq(headers[name], 1, next)
        BY <1>1, <2>3, <3>1 DEF Taken
      <4> QED
        BY <1>2, <1>3, <4>1, <4>2, OneMoreTaken
    <3>3. ListsValues(Append(Taken(k), line.value), LinesOf(name) \cup {last}, lines')
      <4>1. ListsValues(Taken(k), LinesOf(name), lines) /\ LinesOf(name) \in SUBSET Nat
        BY <1>5, <2>1, <2>3
      <4>2. \A p \in LinesOf(name) : p < last /\ lines'[p].value = lines[p].value
        BY <1>5
      <4>3. last \in Nat /\ lines'[last].value = line.value
        BY <1>4
      <4> QED
        BY <3>2, <4>1, <4>2, <4>3, ListsOneMore
    <3>4. next <= Len(headers[name])
      BY <1>2
    <3> QED
      BY <1>1, <1>5, <2>3, <3>1, <3>2, <3>3, <3>4 DEF MapOnWire
  <2> QED
    BY <2>2, <2>3
<1>7. ASSUME NEW k \in Spellings PROVE WireInResponse(k)'
  <2>1. ListsValues(ValuesOf(response, k), CopiedOf(Lower[k]), lines)
    BY DEF HeadersInv, WireInResponse
  <2>2. \A p \in CopiedOf(Lower[k]) : lines'[p].value = lines[p].value
    BY <1>5 DEF CopiedOf
  <2> QED
    BY <1>1, <1>5, <2>1, <2>2, ListsElsewhere DEF WireInResponse
<1>8. \A k \in Spellings : WrittenInMap(k)'
  BY <1>1 DEF HeadersInv, WrittenInMap, GivenBy
<1>9. HeaderTypes'
  <2>1. added' \in [Spellings -> Nat]
    BY <1>1, <1>2
  <2>2. \A i \in 1 .. Len(lines') : Lower[lines'[i].name] = lines'[i].name
    <3>1. \A i \in 1 .. Len(lines) : Lower[lines'[i].name] = lines'[i].name
      BY <1>4 DEF HeadersInv, HeaderTypes
    <3>2. Lower[lines'[last].name] = lines'[last].name
      BY <1>2, <1>3, <1>4
    <3> QED
      BY <1>4, <3>1, <3>2
  <2> QED
    BY <1>1, <1>4, <2>1, <2>2 DEF HeadersInv, HeaderTypes
<1>10. Progress'
  BY <1>1 DEF Progress
<1> QED
  BY <1>6, <1>7, <1>8, <1>9, <1>10 DEF HeadersInv

(* A line of the reply is copied, or left out.                             *)
LEMMA CopyLineKeeps ==
  ASSUME HeadersInv, CopyLine PROVE HeadersInv'
<1> DEFINE next == copied + 1
           line == lines[next]
<1>1. /\ phase = "copying" /\ UNCHANGED <<phase, headers, written, lines, added>>
      /\ copied < Len(lines) /\ copied' = next
      /\ response' = IF line.value \in Accented THEN response
                     ELSE AppendHeader(response, line.name, line.value)
  BY DEF CopyLine
<1>2. /\ lines \in Seq([name : Spellings, value : Values]) /\ copied \in 0 .. Len(lines)
      /\ IsHeaders(response)
      /\ \A i \in 1 .. Len(lines) : Lower[lines[i].name] = lines[i].name
  BY DEF HeadersInv, HeaderTypes
<1>3. /\ next \in 1 .. Len(lines) /\ next \in 0 .. Len(lines) /\ next \in Nat
      /\ \A i \in 1 .. Len(lines) : i <= next <=> i <= copied \/ i = next
      /\ ~(next <= copied)
  BY <1>1, <1>2
<1>4. line \in [name : Spellings, value : Values] /\ Lower[line.name] = line.name
  <2>1. \A i \in 1 .. Len(lines) : lines[i] \in [name : Spellings, value : Values]
    BY <1>2, ElementOfSeq
  <2> QED
    BY <1>2, <1>3, <2>1
<1>5. line.name \in Spellings /\ line.value \in Values
  BY <1>4
<1>6. ASSUME NEW n PROVE
        /\ CopiedOf(n)' = IF line.name = n /\ line.value \notin Accented
                          THEN CopiedOf(n) \cup {next} ELSE CopiedOf(n)
        /\ CopiedOf(n) \in SUBSET Nat /\ \A p \in CopiedOf(n) : p < next
  <2>1. CopiedOf(n) = {i \in 1 .. Len(lines) : lines[i].name = n /\ i <= copied
                                                /\ lines[i].value \notin Accented}
    BY DEF CopiedOf, LinesOf
  <2>2. CopiedOf(n)' = {i \in 1 .. Len(lines) : lines[i].name = n /\ i <= next
                                                 /\ lines[i].value \notin Accented}
    BY <1>1 DEF CopiedOf, LinesOf
  <2>3. \A p \in CopiedOf(n) : p \in Nat /\ p < next
    BY <1>2, <2>1
  <2> QED
    BY <1>3, <2>1, <2>2, <2>3
<1> HIDE DEF next
<1>7. ASSUME NEW k \in Spellings PROVE WireInResponse(k)'
  <2>1. ListsValues(ValuesOf(response, k), CopiedOf(Lower[k]), lines)
    BY DEF HeadersInv, WireInResponse
  <2>2. CASE line.value \in Accented
    BY <1>1, <1>6, <2>1, <2>2 DEF WireInResponse
  <2>3. CASE line.value \notin Accented /\ Lower[k] # line.name
    <3>1. ValuesOf(response', k) = ValuesOf(response, k)
      BY <1>1, <1>2, <1>4, <1>5, <2>3, AfterAppend
    <3> QED
      BY <1>1, <1>6, <2>1, <2>3, <3>1 DEF WireInResponse
  <2>4. CASE line.value \notin Accented /\ Lower[k] = line.name
    <3>1. ValuesOf(response', k) = Append(ValuesOf(response, k), line.value)
      <4>1. response' = AppendHeader(response, line.name, line.value)
        BY <1>1, <2>4
      <4>2. Lower[k] = Lower[line.name]
        BY <1>4, <2>4
      <4> HIDE DEF line
      <4> QED
        BY <1>2, <1>5, <4>1, <4>2, AfterAppend
    <3>2. ValuesOf(response, k) \in Seq(Values)
      BY <1>2, ValuesAreSeq
    <3>3. ListsValues(Append(ValuesOf(response, k), line.value),
                      CopiedOf(Lower[k]) \cup {next}, lines)
      BY <1>3, <1>5, <1>6, <2>1, <3>2, ListsOneMore
    <3> QED
      BY <1>1, <1>6, <2>4, <3>1, <3>3 DEF WireInResponse
  <2> QED
    BY <2>2, <2>3, <2>4
<1>8. \A k \in Spellings : WrittenInMap(k)' /\ MapOnWire(k)'
  BY <1>1 DEF HeadersInv, WrittenInMap, GivenBy, MapOnWire, Taken, LinesOf
<1>9. HeaderTypes'
  <2>1. IsHeaders(response')
    BY <1>1, <1>2, <1>5, AfterAppend
  <2> QED
    BY <1>1, <1>3, <2>1 DEF HeadersInv, HeaderTypes
<1>10. Progress'
  BY <1>1 DEF HeadersInv, Progress
<1> QED
  BY <1>7, <1>8, <1>9, <1>10 DEF HeadersInv

(* The other steps only move on.                                           *)
LEMMA OthersKeep ==
  ASSUME HeadersInv, UNCHANGED <<headers, written, fetchVars>>,
         \/ phase' = phase \/ phase' \in {"adding", "failed"}
         \/ phase' = "sent" /\ Unyielded(headers, added) = {}
         \/ phase' = "copying" /\ phase = "sent"
         \/ phase' = "answered" /\ phase = "copying" /\ copied = Len(lines)
  PROVE  HeadersInv'
<1>1. HeaderTypes'
  BY DEF HeadersInv, HeaderTypes, fetchVars
<1>2. \A k \in Spellings : WrittenInMap(k)' /\ MapOnWire(k)' /\ WireInResponse(k)'
  BY DEF HeadersInv, WrittenInMap, GivenBy, MapOnWire, Taken, LinesOf, WireInResponse,
         CopiedOf, fetchVars
<1>3. Progress'
  BY DEF HeadersInv, Progress, fetchVars
<1> QED
  BY <1>1, <1>2, <1>3 DEF HeadersInv

LEMMA HeadersInvNext == HeadersInv /\ [Next]_vars => HeadersInv'
<1> SUFFICES ASSUME HeadersInv, [Next]_vars PROVE HeadersInv'
  OBVIOUS
<1>1. CASE WriteSome
  <2>1. PICK key \in Spellings, op \in {"set", "append", "delete"}, v \in Values \cup {None} :
          (op # "delete" => v \in Values) /\ Write(op, key, v)
    BY <1>1 DEF WriteSome
  <2> QED
    BY <2>1, WriteKeeps
<1>2. CASE Accept
  BY <1>2, AcceptKeeps
<1>3. ASSUME NEW name \in Spellings, AddLine(name) PROVE HeadersInv'
  BY <1>3, AddLineKeeps
<1>4. CASE CopyLine
  BY <1>4, CopyLineKeeps
<1>5. CASE Fetch \/ FetchSend \/ FetchFails \/ FetchAnswered \/ FetchEnds
  BY <1>5, OthersKeep DEF Fetch, FetchSend, FetchFails, FetchAnswered, FetchEnds
<1>6. CASE Socket \/ Ended \/ UNCHANGED vars
  BY <1>6, OthersKeep DEF Socket, Ended, vars, httpVars
<1> QED
  BY <1>1, <1>2, <1>3, <1>4, <1>5, <1>6 DEF Next, FetchStep

(* When everything was added and copied, the three lists are one.          *)
LEMMA HeadersInvComesBack == HeadersInv => HeadersComeBack
<1> SUFFICES ASSUME HeadersInv, phase = "answered", NEW k \in Spellings
             PROVE  ListsValues(ValuesOf(response, k),
                      {i \in GivenBy(Lower[k]) : written[i].value \notin Accented}, written)
  BY DEF HeadersComeBack
<1>1. /\ Unyielded(headers, added) = {} /\ copied = Len(lines)
      /\ IsHeaders(headers) /\ IsHeaders(response) /\ added \in [Spellings -> Nat]
      /\ WrittenInMap(k) /\ MapOnWire(k) /\ WireInResponse(k)
  BY DEF HeadersInv, HeaderTypes, Progress
<1>2. /\ ValuesOf(headers, k) \in Seq(Values) /\ ValuesOf(response, k) \in Seq(Values)
      /\ Lower[k] \in Spellings /\ (Lower[k] \notin DOMAIN headers => ValuesOf(headers, k) = <<>>)
  BY <1>1, ValuesAreSeq
<1>3. added[Lower[k]] = Len(ValuesOf(headers, k))
  <2>1. added[Lower[k]] <= Len(ValuesOf(headers, k)) /\ added[Lower[k]] \in Nat
    BY <1>1, <1>2 DEF MapOnWire
  <2>2. CASE Lower[k] \in DOMAIN headers
    <3>1. ~(added[Lower[k]] < Len(headers[Lower[k]])) /\ ValuesOf(headers, k) = headers[Lower[k]]
      BY <1>1, <2>2 DEF Unyielded, ValuesOf, HasHeader
    <3>2. Len(ValuesOf(headers, k)) \in Nat
      BY <1>2
    <3> QED
      BY <2>1, <3>1, <3>2
  <2>3. CASE Lower[k] \notin DOMAIN headers
    BY <1>2, <2>1, <2>3
  <2> QED
    BY <2>2, <2>3
<1>4. ListsValues(ValuesOf(headers, k), LinesOf(Lower[k]), lines)
  <2>1. Taken(k) = ValuesOf(headers, k)
    BY <1>2, <1>3 DEF Taken
  <2> QED
    BY <1>1, <2>1 DEF MapOnWire
<1>5. ListsValues(ValuesOf(response, k), {t \in LinesOf(Lower[k]) : lines[t].value \notin Accented},
                  lines)
  <2>1. CopiedOf(Lower[k]) = {t \in LinesOf(Lower[k]) : lines[t].value \notin Accented}
    BY <1>1 DEF CopiedOf, LinesOf
  <2> QED
    BY <1>1, <2>1 DEF WireInResponse
<1>6. GivenBy(Lower[k]) \in SUBSET Nat /\ LinesOf(Lower[k]) \in SUBSET Nat
  BY DEF GivenBy, LinesOf
<1> QED
  BY <1>1, <1>2, <1>4, <1>5, <1>6, ListsThrough DEF WrittenInMap

(* For any header names, spellings, values and number of operations, what  *)
(* fetch copies into the HTTP client and back from the response (fetch.rs) *)
(* is what the program wrote, without what is not text.                    *)
THEOREM HeadersAlwaysComeBack == Spec => []HeadersComeBack
<1>1. Init => HeadersInv
  BY HeadersInvInit
<1>2. HeadersInv /\ [Next]_vars => HeadersInv'
  BY HeadersInvNext
<1> QED
  BY <1>1, <1>2, HeadersInvComesBack, PTL DEF Spec
=============================================================================
