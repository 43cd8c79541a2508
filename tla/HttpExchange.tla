---------------------------- MODULE HttpExchange ----------------------------
(***************************************************************************)
(* A request is built (request.rs, headers.rs), then either upgrades to a  *)
(* pair of WebSocket ends (accept of websocket.rs) or is sent by fetch     *)
(* (fetch.rs), which copies the headers into the HTTP client and the       *)
(* response's headers back.                                                *)
(*                                                                         *)
(* External: the HTTP client (reqwest), which sends header lines in the    *)
(* order they are added and refuses a value with control characters, and   *)
(* the server, which may answer with the lines it received.                *)
(***************************************************************************)
EXTENDS Headers, WebSocketPair, FiniteSets

CONSTANTS
  Values,     (* header values                                             *)
  Accented,   (* those that are not visible ASCII, which to_str refuses    *)
  Control,    (* those with control characters, which the client refuses   *)
  Websocket,  (* those that are "websocket" in some case                   *)
  UpgradeKey,
  MaxOps      (* bound: operations on the request's headers                *)

ASSUME ValuesAssumption == Accented \cup Control \cup Websocket \subseteq Values

VARIABLES
  phase,      (* building, adding, sent, copying, answered, failed,        *)
              (* upgraded                                                  *)
  headers,    (* req.headers                                               *)
  written,    (* history: the operations on them                           *)
  lines,      (* header lines on the wire: the request's, then the reply's *)
  response,   (* headers of the response                                   *)
  added,      (* per name: values fetch has added to the HTTP client       *)
  copied      (* lines of the reply fetch has looked at                    *)

fetchVars == <<lines, response, added, copied>>
httpVars == <<phase, headers, written, fetchVars>>
vars == <<httpVars, socketVars>>

Init ==
  /\ phase = "building"
  /\ headers = NoHeaders /\ response = NoHeaders
  /\ written = <<>> /\ lines = <<>>
  /\ added = [n \in Spellings |-> 0] /\ copied = 0
  /\ SocketInit

(* What a program does to req.headers before it uses the request.          *)
Write(op, key, v) ==
  /\ phase = "building" /\ Len(written) < MaxOps
  /\ written' = Append(written, [op |-> op, key |-> key, value |-> v])
  /\ headers' = CASE op = "set" -> SetHeader(headers, key, v)
                  [] op = "append" -> AppendHeader(headers, key, v)
                  [] op = "delete" -> DeleteHeader(headers, key)
  /\ UNCHANGED <<phase, fetchVars, socketVars>>

WriteSome ==
  \E key \in Spellings :
    \/ \E v \in Values, op \in {"set", "append"} : Write(op, key, v)
    \/ Write("delete", key, None)

-----------------------------------------------------------------------------
(* is_upgrade: the first value of the header decides.                      *)
IsUpgrade == GetHeader(headers, UpgradeKey) \in Websocket

(* accept, of a request that is an upgrade; the request is dropped.        *)
Accept ==
  /\ phase = "building" /\ IsUpgrade
  /\ phase' = "upgraded"
  /\ headers' = NoHeaders /\ written' = <<>>
  /\ UNCHANGED fetchVars
  /\ NewPair

(* fetch takes the request over; its loop over the entries adds a header   *)
(* line for each.                                                          *)
Fetch ==
  /\ phase = "building"
  /\ phase' = "adding"
  /\ UNCHANGED <<headers, written, fetchVars, socketVars>>

AddLine(name) ==
  /\ phase = "adding"
  /\ MayYield(headers, added, name)
  /\ lines' = Append(lines, [name |-> name, value |-> headers[name][added[name] + 1]])
  /\ added' = [added EXCEPT ![name] = @ + 1]
  /\ UNCHANGED <<phase, headers, written, response, copied, socketVars>>

FetchSend ==
  /\ phase = "adding"
  /\ Unyielded(headers, added) = {}
  /\ phase' = IF \E i \in 1 .. Len(lines) : lines[i].value \in Control
              THEN "failed" ELSE "sent"
  /\ UNCHANGED <<headers, written, fetchVars, socketVars>>

(* External: the server answers with the lines it received; the connection *)
(* may also be lost, before the status or with the body.                   *)
FetchFails ==
  /\ \/ phase = "sent"
     \/ phase = "copying" /\ copied = Len(lines)
  /\ phase' = "failed"
  /\ UNCHANGED <<headers, written, fetchVars, socketVars>>

FetchAnswered ==
  /\ phase = "sent"
  /\ phase' = "copying"
  /\ UNCHANGED <<headers, written, fetchVars, socketVars>>

(* The loop over the response's headers: a value that is not text is left  *)
(* out.                                                                    *)
CopyLine ==
  LET line == lines[copied + 1] IN
  /\ phase = "copying"
  /\ copied < Len(lines)
  /\ copied' = copied + 1
  /\ response' = IF line.value \in Accented THEN response
                 ELSE AppendHeader(response, line.name, line.value)
  /\ UNCHANGED <<phase, headers, written, lines, added, socketVars>>

(* The body is there, and the response complete.                           *)
FetchEnds ==
  /\ phase = "copying"
  /\ copied = Len(lines)
  /\ phase' = "answered"
  /\ UNCHANGED <<headers, written, fetchVars, socketVars>>

FetchStep == Fetch \/ (\E name \in Spellings : AddLine(name)) \/ FetchSend \/ FetchFails
               \/ FetchAnswered \/ CopyLine \/ FetchEnds

Socket == phase = "upgraded" /\ SocketNext /\ UNCHANGED httpVars

Ended ==
  /\ phase \in {"answered", "failed", "upgraded"}
  /\ \A s \in Ends : ~open[s]
  /\ UNCHANGED vars

Next == WriteSome \/ Accept \/ FetchStep \/ Socket \/ Ended

Spec == Init /\ [][Next]_vars

(* Tasks of tokio run when a call of theirs can finish.                    *)
FairSpec == Spec /\ \A s \in Ends : WF_vars(phase = "upgraded" /\ Finish(s) /\ UNCHANGED httpVars)

-----------------------------------------------------------------------------
(* A sequence is that of the values of the records at some places.         *)
ListsValues(values, places, records) ==
  \E f \in [1 .. Len(values) -> places] :
    /\ \A i, j \in 1 .. Len(values) : i < j => f[i] < f[j]
    /\ \A p \in places : \E i \in 1 .. Len(values) : f[i] = p
    /\ \A i \in 1 .. Len(values) : values[i] = records[f[i]].value

(* The operations that gave the values of a name: the sets and appends on  *)
(* it, in any spelling, that no set or delete of it follows.               *)
GivenBy(name) ==
  {i \in 1 .. Len(written) :
     /\ Lower[written[i].key] = name /\ written[i].op # "delete"
     /\ \A j \in 1 .. Len(written) :
          i < j /\ Lower[written[j].key] = name => written[j].op = "append"}

(* A request whose headers are sent back to it gets them as the program    *)
(* wrote them: for each name, in any spelling and after any order of set,  *)
(* append and delete, the values given since it was last set or deleted,   *)
(* in that order, although fetch copies them twice through maps and lists. *)
(* The only ones missing are those that are not text.                      *)
HeadersComeBack ==
  phase = "answered" =>
    \A k \in Spellings :
      ListsValues(ValuesOf(response, k),
                  {i \in GivenBy(Lower[k]) : written[i].value \notin Accented}, written)
=============================================================================
