------------------------------ MODULE Conntrack ------------------------------
(***************************************************************************)
(* The conntrack flusher (src/src/netlink/conntrack.rs): one dump of the   *)
(* kernel's table of flows over a netlink socket, with the deletions sent  *)
(* in batches on the same socket while the dump still comes in.            *)
(*                                                                         *)
(* Abstractions.                                                           *)
(*  - A flow is its original tuple and its zone; of the addresses in its   *)
(*    tuples the one it has as a WAN flow is kept.                         *)
(*  - A sequence number is kept as what the code asks of it: whether it is *)
(*    that of the dump under way ("fresh").                                *)
(*  - The messages of a datagram are handled in any order, its NLMSG_DONE  *)
(*    last.  A batch is a set, and BatchLimit counts flows for bytes.      *)
(*  - The kernel's side (what a dump shows and when, what a deletion does) *)
(*    is external: a dump shows every flow that lives from its start to    *)
(*    its end, and of the others what it likes, some of them twice.        *)
(***************************************************************************)
EXTENDS Integers, Sequences, FiniteSets

CONSTANTS
  Interfaces, Addresses,
  Flows,
  TupleOf, ZoneOf,  \* original tuple and zone of each flow
  BatchLimit,       \* DELETE_BATCH_LIMIT
  QueueLimit,       \* datagrams the kernel queues ahead on the socket
  MaxChanges,       \* bound: changes of flows
  MaxFailures       \* bound: system calls and requests that fail

None   == "none"    \* no address, no flow
NoDump == [on |-> FALSE, left |-> {}, fresh |-> FALSE]

ASSUME ConntrackAssumption ==
  /\ None \notin Addresses
  /\ IsFiniteSet(Flows)
  /\ \A f, g \in Flows : TupleOf[f] = TupleOf[g] /\ ZoneOf[f] = ZoneOf[g] => f = g
  /\ BatchLimit \in Nat \ {0} /\ QueueLimit \in Nat \ {0}
  /\ MaxChanges \in Nat /\ MaxFailures \in Nat

VARIABLES
  table,     \* address of each flow in the kernel's table
  open,      \* sock_fd is a socket
  queue,     \* datagrams waiting on it
  dump,      \* the dump the kernel has under way on it
  pc,        \* "idle", "request", "receive", "parse", "finish"
  ips,       \* target_ips
  inbox,     \* messages of the datagram not handled yet
  ended,     \* NLMSG_DONE comes after them; dump_done at the end
  batch,     \* deletions not sent yet
  failed,    \* first_err is set
  result,    \* how the last call ended
  changes, failures,
  steady,    \* history: flows of target_ips since the dump was asked for
  ever       \* history: flows that were of target_ips at some time since then

socketVars == <<open, queue, dump>>
callVars   == <<pc, ips, inbox, ended, batch, failed, result>>
vars == <<table, socketVars, callVars, changes, failures, steady, ever>>

Present == {f \in Flows : table[f] # None}
Matching(t, A) == {f \in Flows : t[f] \in A}

Init ==
  /\ table \in [Flows -> Addresses \cup {None}]
  /\ open = TRUE /\ queue = <<>> /\ dump = NoDump
  /\ pc = "idle" /\ ips = {} /\ inbox = {} /\ ended = FALSE
  /\ batch = {} /\ failed = FALSE /\ result = "none"
  /\ changes = 0 /\ failures = 0 /\ steady = {} /\ ever = {}

Fails ==
  /\ failures < MaxFailures
  /\ failures' = failures + 1

Return(r) ==
  /\ pc' = "idle" /\ result' = r
  /\ ips' = {} /\ inbox' = {} /\ ended' = FALSE /\ batch' = {} /\ failed' = FALSE
  /\ steady' = {} /\ ever' = {}

-----------------------------------------------------------------------------
(* The kernel's end of the socket.                                         *)

Entries(shows, done) == [error |-> FALSE, fresh |-> TRUE, shows |-> shows, done |-> done]
Refusal(fresh)       == [error |-> TRUE, fresh |-> fresh, shows |-> {}, done |-> FALSE]

(* What is left of an earlier dump is not of the one asked for now.        *)
Stale(q) == [i \in DOMAIN q |-> [q[i] EXCEPT !.fresh = FALSE]]

(* A dump request while a dump is under way is refused with EBUSY.         *)
Accept ==
  /\ queue' = Stale(queue)
  /\ dump' = [on |-> TRUE, left |-> Present, fresh |-> TRUE]

Refuse ==
  /\ queue' = Append(Stale(queue), Refusal(TRUE))
  /\ dump' = [dump EXCEPT !.fresh = FALSE]

KernelDumps ==
  /\ dump.on /\ Len(queue) < QueueLimit
  /\ \E shown \in SUBSET Present, done \in BOOLEAN :
       LET left == dump.left \ shown
       IN  /\ IF done THEN left = {} ELSE left # dump.left
           /\ queue' = Append(queue, [Entries({<<f, table[f]>> : f \in shown}, done)
                                        EXCEPT !.fresh = dump.fresh])
           /\ dump' = IF done THEN NoDump ELSE [dump EXCEPT !.left = left]
  /\ UNCHANGED <<table, open, callVars, changes, failures, steady, ever>>

(* Mutant: the zone is left out, and the kernel takes it to be zone 0.     *)
NamedZoneless(B) ==
  {g \in Flows : ZoneOf[g] = 0 /\ \E f \in B : TupleOf[g] = TupleOf[f]}

(* A deletion names the original tuple and, if it has one, the zone.       *)
Named(B) ==
  {g \in Flows : \E f \in B : TupleOf[g] = TupleOf[f] /\ ZoneOf[g] = ZoneOf[f]}

Delete(B) ==
  /\ table' = [f \in Flows |-> IF f \in Named(B) THEN None ELSE table[f]]
  /\ steady' = steady \ Named(B)

(* Only a deletion that fails is answered, with a number of its own.       *)
Replies(B, q) == IF Named(B) \subseteq Present THEN q ELSE Append(q, Refusal(FALSE))

-----------------------------------------------------------------------------
(* A call of flush_interfaces_conntrack.                                   *)

(* The address of an interface, or the last one known if the query fails.  *)
Resolved(S, live, last) ==
  {live[i] : i \in {j \in S : live[j] # None}}
  \cup {last[i] : i \in {j \in S : live[j] = None /\ last[j] # None}}

Flush(S) ==
  /\ pc = "idle"
  /\ \E live, last \in [S -> Addresses \cup {None}] :
       LET found == Resolved(S, live, last)
       IN  IF found = {} THEN result' = "unresolved" /\ UNCHANGED <<pc, ips>>
           ELSE pc' = "request" /\ ips' = found /\ result' = "none"
  /\ UNCHANGED <<table, socketVars, inbox, ended, batch, failed,
                 changes, failures, steady, ever>>

(* A socket that could not be opened again after an earlier call is opened *)
(* now, or the call fails.                                                 *)
OpenFails ==
  /\ pc = "request" /\ ~open
  /\ Fails
  /\ Return("failed")
  /\ UNCHANGED <<table, socketVars, changes>>

SendFails ==
  /\ pc = "request"
  /\ Fails
  /\ open' = TRUE
  /\ Return("failed")
  /\ UNCHANGED <<table, queue, dump, changes>>

Request ==
  /\ pc = "request"
  /\ open' = TRUE
  /\ IF dump.on THEN Refuse /\ UNCHANGED failures
     ELSE \/ Accept /\ UNCHANGED failures
          \/ Refuse /\ Fails
  /\ pc' = "receive"
  /\ steady' = Matching(table, ips) /\ ever' = Matching(table, ips)
  /\ UNCHANGED <<table, ips, inbox, ended, batch, failed, result, changes>>

(* A datagram.  The error of the dump request ends the loop, that of a     *)
(* deletion is passed over, and so are entries of an earlier dump; the     *)
(* number of NLMSG_DONE is not looked at.                                  *)
Receive ==
  /\ pc = "receive" /\ queue # <<>>
  /\ LET m == Head(queue)
     IN  /\ pc' = IF ~m.error THEN "parse" ELSE IF m.fresh THEN "finish" ELSE pc
         /\ inbox' = IF m.fresh THEN m.shows ELSE {}
         /\ ended' = m.done
         /\ failed' = (failed \/ (m.error /\ m.fresh))
  /\ queue' = Tail(queue)
  /\ UNCHANGED <<table, open, dump, ips, batch, result,
                 changes, failures, steady, ever>>

(* A datagram larger than the buffer: what does not fit is lost, and with  *)
(* it the NLMSG_DONE.                                                      *)
ReceiveTruncated ==
  /\ pc = "receive" /\ queue # <<>> /\ Head(queue).shows # {}
  /\ Fails
  /\ \E kept \in SUBSET Head(queue).shows :
       inbox' = IF Head(queue).fresh THEN kept ELSE {}
  /\ pc' = "parse" /\ ended' = FALSE /\ failed' = TRUE
  /\ queue' = Tail(queue)
  /\ UNCHANGED <<table, open, dump, ips, batch, result, changes, steady, ever>>

(* Nothing arrives in time, or the socket reports an error.                *)
ReceiveFails ==
  /\ pc = "receive"
  /\ IF queue = <<>> /\ ~dump.on THEN UNCHANGED failures ELSE Fails
  /\ pc' = "finish" /\ ended' = FALSE /\ failed' = TRUE
  /\ UNCHANGED <<table, socketVars, ips, inbox, batch, result,
                 changes, steady, ever>>

(* Mutant: the answers to the deletions are drained right after a batch.   *)
SentDraining(B) == Delete(B) /\ queue' = <<>> /\ UNCHANGED <<failures, failed>>

(* send of a batch: all of it or nothing, and the batch is given up.       *)
Sent(B) == Delete(B) /\ queue' = Replies(B, queue) /\ UNCHANGED <<failures, failed>>

Unsent == Fails /\ failed' = TRUE /\ UNCHANGED <<table, queue, steady>>

(* Mutant: a batch is sent when it no longer fits.                         *)
FullLate(B) == Cardinality(B) > BatchLimit

Full(B) == Cardinality(B) >= BatchLimit

(* An entry of the dump, a <<flow, address>> pair, is to be deleted.       *)
Hit(e) == e[2] \in ips

(* One to be deleted joins the batch, which is sent when it is full.       *)
Parse(e) ==
  /\ pc = "parse" /\ e \in inbox
  /\ inbox' = inbox \ {e}
  /\ LET more == IF Hit(e) THEN batch \cup {e[1]} ELSE batch
     IN  IF Full(more)
         THEN batch' = {} /\ (Sent(more) \/ Unsent)
         ELSE batch' = more /\ UNCHANGED <<table, queue, failures, failed, steady>>
  /\ UNCHANGED <<open, dump, pc, ips, ended, result, changes, ever>>

Parsed ==
  /\ pc = "parse" /\ inbox = {}
  /\ pc' = IF ended THEN "finish" ELSE "receive"
  /\ UNCHANGED <<table, socketVars, ips, inbox, ended, batch, failed, result,
                 changes, failures, steady, ever>>

(* The last batch.                                                         *)
SendRest ==
  /\ pc = "finish" /\ batch # {}
  /\ batch' = {}
  /\ Sent(batch) \/ Unsent
  /\ UNCHANGED <<open, dump, pc, ips, inbox, ended, result, changes, ever>>

Drain == queue' = <<>> /\ UNCHANGED <<open, dump>>

(* A socket that is closed takes the dump along that the kernel may still  *)
(* have under way on it; opening the new one may fail.                     *)
Reopen == queue' = <<>> /\ dump' = NoDump /\ open' \in BOOLEAN

(* Mutant: the socket is only ever drained.                                *)
CleanUpDraining == Drain

CleanUp == IF ended THEN Drain ELSE Reopen

Finish ==
  /\ pc = "finish" /\ batch = {}
  /\ CleanUp
  /\ Return(IF failed THEN "failed" ELSE "flushed")
  /\ UNCHANGED <<table, changes, failures>>

-----------------------------------------------------------------------------
(* The world: flows end, begin and begin anew over another line.           *)

FlowChanges(f) ==
  /\ changes < MaxChanges
  /\ changes' = changes + 1
  /\ \E a \in Addresses \cup {None} :
       /\ table' = [table EXCEPT ![f] = a]
       /\ steady' = steady \ {f}
       /\ ever' = IF a \in ips /\ pc # "request" THEN ever \cup {f} ELSE ever
       /\ dump' = [dump EXCEPT !.left = @ \ {f}]
  /\ UNCHANGED <<open, queue, callVars, failures>>

-----------------------------------------------------------------------------

Worker ==
  \/ OpenFails \/ SendFails \/ Request
  \/ Receive \/ ReceiveTruncated \/ ReceiveFails
  \/ (\E e \in inbox : Parse(e)) \/ Parsed \/ SendRest \/ Finish

Next ==
  \/ \E S \in SUBSET Interfaces : Flush(S)
  \/ Worker \/ KernelDumps
  \/ \E f \in Flows : FlowChanges(f)

(* A call runs on, and so does the dump it waits for.                      *)
Spec == Init /\ [][Next]_vars /\ WF_vars(Worker) /\ WF_vars(KernelDumps)

-----------------------------------------------------------------------------
(* Properties.                                                             *)

Datagrams == [error : BOOLEAN, fresh : BOOLEAN, done : BOOLEAN,
              shows : SUBSET (Flows \X Addresses)]
Dumps == [on : BOOLEAN, left : SUBSET Flows, fresh : BOOLEAN]

(* Types, and the limit of a batch: between two messages there is always   *)
(* room for one more deletion.                                             *)
TypeOK ==
  /\ table \in [Flows -> Addresses \cup {None}]
  /\ open \in BOOLEAN /\ queue \in Seq(Datagrams) /\ dump \in Dumps
  /\ pc \in {"idle", "request", "receive", "parse", "finish"}
  /\ ips \subseteq Addresses /\ inbox \subseteq Flows \X Addresses
  /\ ended \in BOOLEAN /\ failed \in BOOLEAN
  /\ batch \subseteq Flows /\ Cardinality(batch) < BatchLimit
  /\ result \in {"none", "unresolved", "failed", "flushed"}
  /\ changes \in Nat /\ failures \in Nat
  /\ steady \subseteq Flows /\ ever \subseteq Flows

(* Between two calls nothing of a dump is left on the socket: neither a    *)
(* dump the kernel has under way, which would refuse the next one with     *)
(* EBUSY, nor entries or an NLMSG_DONE, which would end the next one early *)
(* (its number is not looked at).                                          *)
SocketClean ==
  pc \in {"idle", "request"} => dump = NoDump /\ queue = <<>>

(* A call that reports success has deleted every flow that was of the      *)
(* flushed addresses when the dump was asked for and has been ever since.  *)
(* The event loop takes it at its word: it flushes a line once an outage.  *)
FlushedAll ==
  [][Finish /\ result' = "flushed" => steady = {}]_vars

(* The flusher deletes only flows that were of a flushed address at some   *)
(* time during the call: not the flow of another zone with the same tuple, *)
(* and none of a line that is well.  (A flow that began anew over another  *)
(* line between the dump and the deletion is deleted too.)                 *)
SparesOthers ==
  [][\A f \in Flows : Worker /\ table[f] # None /\ table'[f] = None => f \in ever]_vars

(* Whatever failed before, if flushes go on being asked for then some      *)
(* succeed: no call hangs, and none leaves a socket on which every later   *)
(* one is refused.                                                         *)
FlushRecovers ==
  []<>(pc # "idle") => []<>(pc = "idle" /\ result = "flushed")

=============================================================================
