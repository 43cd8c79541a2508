--------------------------- MODULE WebSocketPair ---------------------------
(***************************************************************************)
(* WebSocketPair (workex-runtime/src/websocket.rs): two ends joined by two *)
(* bounded channels of tokio.                                              *)
(*                                                                         *)
(* queue[s] holds what end s has sent and its peer has not received.  send *)
(* borrows the end and recv borrows it exclusively, so an end has several  *)
(* sends under way or one recv.  waiting[s] are the messages of the sends  *)
(* under way, in the order they asked for a slot: free slots are granted   *)
(* in that order, but whoever holds one pushes when its task runs.  A call *)
(* may be cancelled (its future dropped, by a select or a timeout).  Close *)
(* is a message like any other, so messages are numbers.                   *)
(***************************************************************************)
EXTENDS Integers, Sequences

CONSTANTS
  Capacity,      (* slots of a channel: 32                                 *)
  MaxMessages,   (* bound: sends started by an end                         *)
  MaxPending     (* bound: sends of an end under way                       *)

ASSUME CapacityAssumption == Capacity \in Nat \ {0}

VARIABLES waiting, queue, receiving, open,
          started,   (* sends started by an end                            *)
          (* history: *)
          sent,      (* messages of the sends of an end that returned Ok   *)
          got,       (* messages the recvs of an end returned              *)
          refused,   (* a send of the end returned Err                     *)
          ended      (* a recv of the end returned None                    *)

socketVars == <<waiting, queue, receiving, open, started, sent, got, refused, ended>>

Ends == {"client", "server"}
Other(s) == IF s = "client" THEN "server" ELSE "client"

(* Before the upgrade no end exists.                                       *)
SocketInit ==
  /\ waiting = [s \in Ends |-> <<>>]
  /\ queue = [s \in Ends |-> <<>>]
  /\ receiving = [s \in Ends |-> FALSE]
  /\ open = [s \in Ends |-> FALSE]
  /\ started = [s \in Ends |-> 0]
  /\ sent = [s \in Ends |-> <<>>]
  /\ got = [s \in Ends |-> <<>>]
  /\ refused = [s \in Ends |-> FALSE]
  /\ ended = [s \in Ends |-> FALSE]

(* WebSocketPair::new                                                      *)
NewPair ==
  /\ open' = [s \in Ends |-> TRUE]
  /\ UNCHANGED <<waiting, queue, receiving, started, sent, got, refused, ended>>

(* The channel an end receives from.                                       *)
Source(s) == Other(s)

(* Mutant: a slot is not given back when its message is received.          *)
GrantedOnce(s) == {k \in DOMAIN waiting[s] : k <= Capacity - Len(sent[s])}

(* The sends under way that hold a slot.                                   *)
Granted(s) == {k \in DOMAIN waiting[s] : k <= Capacity - Len(queue[s])}

Without(seq, k) == SubSeq(seq, 1, k - 1) \o SubSeq(seq, k + 1, Len(seq))

-----------------------------------------------------------------------------
(* send: the call, its success, its failure (the peer is gone, also when   *)
(* the call was already waiting), its cancellation.                        *)
Send(s) ==
  /\ open[s] /\ ~receiving[s]
  /\ Len(waiting[s]) < MaxPending /\ started[s] < MaxMessages
  /\ started' = [started EXCEPT ![s] = @ + 1]
  /\ waiting' = [waiting EXCEPT ![s] = Append(@, started[s] + 1)]
  /\ UNCHANGED <<queue, receiving, open, sent, got, refused, ended>>

SendOk(s) ==
  /\ open[Other(s)]
  /\ \E k \in Granted(s) :
       /\ queue' = [queue EXCEPT ![s] = Append(@, waiting[s][k])]
       /\ sent' = [sent EXCEPT ![s] = Append(@, waiting[s][k])]
       /\ waiting' = [waiting EXCEPT ![s] = Without(@, k)]
  /\ UNCHANGED <<receiving, open, started, got, refused, ended>>

SendErr(s) ==
  /\ ~open[Other(s)]
  /\ \E k \in DOMAIN waiting[s] : waiting' = [waiting EXCEPT ![s] = Without(@, k)]
  /\ refused' = [refused EXCEPT ![s] = TRUE]
  /\ UNCHANGED <<queue, receiving, open, started, sent, got, ended>>

CancelSend(s) ==
  /\ \E k \in DOMAIN waiting[s] : waiting' = [waiting EXCEPT ![s] = Without(@, k)]
  /\ UNCHANGED <<queue, receiving, open, started, sent, got, refused, ended>>

(* recv: the call, its message, its end (the sender is dropped and what it *)
(* sent is received), its cancellation, which loses nothing.               *)
Recv(s) ==
  /\ open[s] /\ ~receiving[s] /\ waiting[s] = <<>>
  /\ receiving' = [receiving EXCEPT ![s] = TRUE]
  /\ UNCHANGED <<waiting, queue, open, started, sent, got, refused, ended>>

RecvSome(s) ==
  /\ receiving[s] /\ queue[Source(s)] # <<>>
  /\ receiving' = [receiving EXCEPT ![s] = FALSE]
  /\ got' = [got EXCEPT ![s] = Append(@, Head(queue[Source(s)]))]
  /\ queue' = [queue EXCEPT ![Source(s)] = Tail(@)]
  /\ UNCHANGED <<waiting, open, started, sent, refused, ended>>

(* Mutants: the end is reported as soon as the sender is dropped; a clone  *)
(* of the sender lives on in the receiving end.                            *)
RecvNoneAtOnce(s) ==
  /\ receiving[s] /\ ~open[Source(s)]
  /\ receiving' = [receiving EXCEPT ![s] = FALSE]
  /\ ended' = [ended EXCEPT ![s] = TRUE]
  /\ UNCHANGED <<waiting, queue, open, started, sent, got, refused>>

RecvNoneCloned(s) ==
  /\ receiving[s] /\ queue[Source(s)] = <<>> /\ ~open[Source(s)] /\ ~open[s]
  /\ receiving' = [receiving EXCEPT ![s] = FALSE]
  /\ ended' = [ended EXCEPT ![s] = TRUE]
  /\ UNCHANGED <<waiting, queue, open, started, sent, got, refused>>

RecvNone(s) ==
  /\ receiving[s] /\ queue[Source(s)] = <<>> /\ ~open[Source(s)]
  /\ receiving' = [receiving EXCEPT ![s] = FALSE]
  /\ ended' = [ended EXCEPT ![s] = TRUE]
  /\ UNCHANGED <<waiting, queue, open, started, sent, got, refused>>

CancelRecv(s) ==
  /\ receiving[s]
  /\ receiving' = [receiving EXCEPT ![s] = FALSE]
  /\ UNCHANGED <<waiting, queue, open, started, sent, got, refused, ended>>

(* An end is dropped: what it has not received is dropped with it.         *)
Drop(s) ==
  /\ open[s] /\ ~receiving[s] /\ waiting[s] = <<>>
  /\ open' = [open EXCEPT ![s] = FALSE]
  /\ queue' = [queue EXCEPT ![Source(s)] = <<>>]
  /\ UNCHANGED <<waiting, receiving, started, sent, got, refused, ended>>

Finish(s) == SendOk(s) \/ SendErr(s) \/ RecvSome(s) \/ RecvNone(s)

SocketNext ==
  \E s \in Ends : Send(s) \/ CancelSend(s) \/ Recv(s) \/ CancelRecv(s) \/ Drop(s) \/ Finish(s)

-----------------------------------------------------------------------------
(* What the calls of an end report is true.  What it received is what its  *)
(* peer sent with success, in that order; when a recv returned None        *)
(* everything the peer sent has been received, so that dropping a sender   *)
(* cuts nothing off; and a send that returned Err did so because the peer  *)
(* is gone, as a full channel makes it wait.                               *)
InOrder(s) ==
  /\ Len(got[s]) <= Len(sent[Other(s)])
  /\ got[s] = SubSeq(sent[Other(s)], 1, Len(got[s]))

ReportsAreTrue ==
  \A s \in Ends : /\ InOrder(s)
                  /\ ended[s] => got[s] = sent[Other(s)]
                  /\ refused[s] => ~open[Other(s)]

(* Ends do not deadlock when one sends and the other receives: an end that *)
(* receives while its peer has a send under way gets a message, whatever   *)
(* went through the channel before, unless the sends are cancelled.        *)
SenderMeetsReceiver ==
  \A s \in Ends :
    receiving[s] /\ waiting[Source(s)] # <<>> ~>
      ~receiving[s] \/ (waiting[Source(s)] = <<>> /\ queue[Source(s)] = <<>>)

(* Once an end is dropped the calls of the other end return.               *)
CallsEndAfterDrop ==
  \A s \in Ends :
    open[s] /\ ~open[Other(s)] ~> waiting[s] = <<>> /\ ~receiving[s]
=============================================================================
