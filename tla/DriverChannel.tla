--------------------------- MODULE DriverChannel ---------------------------
(***************************************************************************)
(* The command channel to the kernel driver: DriverHandler::send_command   *)
(* and the calls of DriverManager that use it.  A command and the wait for *)
(* its reply are one critical section, with a timeout.  The reply is left  *)
(* in two members, retcode_ and recv_data_, which the calls read after     *)
(* they left the critical section; a reply that comes after the timeout    *)
(* stays in the socket for the next command.                               *)
(*                                                                         *)
(* Commands are numbered in the order they are sent; a reply carries the   *)
(* number of the command it answers, which the code does not see: it only  *)
(* compares the message ids.                                               *)
(***************************************************************************)
EXTENDS Integers, Sequences

CONSTANTS
  Threads,      \* HTTP, NMOS and session worker threads
  Ids,          \* message ids (MT_ALSA_msg_id)
  DataIds,      \* those whose reply carries data the caller copies
  Nobody,       \* no thread
  MaxCommands,  \* bound on the commands sent
  MaxTimeouts,  \* bound on the replies that come too late
  MaxLost       \* bound on the replies that never come

ASSUME ChannelConstants ==
  /\ DataIds \subseteq Ids
  /\ Nobody \notin Threads
  /\ MaxCommands \in Nat /\ MaxTimeouts \in Nat /\ MaxLost \in Nat

VARIABLES
  mutex,     \* mutex_: the thread inside send_command
  sent,      \* number of commands sent
  pending,   \* commands the driver has not answered yet
  socket,    \* replies in the netlink socket
  retcode,   \* retcode_
  recv,      \* recv_data_: the command whose reply it holds
  calls,     \* the call each thread is in, or its last one
  timeouts,  \* commands that gave up waiting
  lost,      \* replies lost
  verdict    \* history: what the driver did with each command

vars == <<mutex, sent, pending, socket, retcode, recv, calls, timeouts, lost, verdict>>

Codes == {"ok", "error"}
Commands == 1..MaxCommands
Command == [num : Commands, id : Ids]
Reply == [num : Commands, id : Ids, code : Codes]

(* pc: "wait" inside send_command, then "test" (if (!retcode_)), "copy"    *)
(* (memcpy from recv_data_), "return" (return retcode_) and "done".        *)
(* shared is history: another command ended before this call returned.     *)
Call == [pc : {"done", "wait", "test", "copy", "return"},
         num : Commands \cup {0}, id : Ids,
         data : Commands \cup {0}, code : Codes, shared : {"no", "yes"}]

(* Types; only the thread inside send_command waits for a reply, and what  *)
(* is in the socket was answered.                                          *)
TypeOK ==
  /\ mutex \in Threads \cup {Nobody} /\ sent \in 0..MaxCommands
  /\ pending \in Seq(Command) /\ socket \in Seq(Reply)
  /\ retcode \in Codes /\ recv \in 0..MaxCommands
  /\ calls \in [Threads -> Call]
  /\ timeouts \in Nat /\ lost \in 0..MaxLost
  /\ verdict \in [Commands -> Codes \cup {"none"}]
  /\ \A t \in Threads : calls[t].pc = "wait" <=> mutex = t
  /\ \A k \in 1..Len(socket) : verdict[socket[k].num] = socket[k].code

Init ==
  /\ mutex = Nobody /\ sent = 0
  /\ pending = <<>> /\ socket = <<>>
  /\ retcode = "ok" /\ recv = 0
  /\ \E id \in Ids : calls = [t \in Threads |->
       [pc |-> "done", num |-> 0, id |-> id, data |-> 0, code |-> "ok", shared |-> "no"]]
  /\ timeouts = 0 /\ lost = 0
  /\ verdict = [n \in Commands |-> "none"]

-----------------------------------------------------------------------------
(* send_command: take the mutex and send.                                  *)
Begin(t, id) ==
  /\ calls[t].pc = "done" /\ sent < MaxCommands
  /\ mutex' = t
  /\ sent' = sent + 1
  /\ pending' = Append(pending, [num |-> sent + 1, id |-> id])
  /\ calls' = [calls EXCEPT ![t] = [pc |-> "wait", num |-> sent + 1, id |-> id,
                                    data |-> 0, code |-> "ok", shared |-> "no"]]
  /\ UNCHANGED <<socket, retcode, recv, timeouts, lost, verdict>>

(* Mutant: the mutex is not taken.                                         *)
SendUnlocked(t, id) == Begin(t, id)

Send(t, id) == mutex = Nobody /\ Begin(t, id)

(* The end of send_command, which on_command_done or on_command_error left *)
(* with this code and data: the caller of a command without data returns   *)
(* retcode_ at once.                                                       *)
Finish(t, code, data) ==
  /\ retcode' = code /\ recv' = data
  /\ mutex' = Nobody
  /\ calls' = [u \in Threads |->
       IF u = t
       THEN [calls[t] EXCEPT !.pc = IF calls[t].id \in DataIds THEN "test" ELSE "return"]
       ELSE [calls[u] EXCEPT !.shared = IF calls[u].pc \in {"test", "copy", "return"}
                                        THEN "yes" ELSE @]]

(* A reply is read: one with another id is an error, and so is an error    *)
(* code of the driver.                                                     *)
ReplyCode(t, r) == IF r.id = calls[t].id THEN r.code ELSE "error"

(* on_command_done copies the data that came with the reply.               *)
Copied(code, r) == IF code = "ok" /\ r.id \in DataIds THEN r.num ELSE recv

(* Mutant: on_command_done does not clear an earlier error.                *)
ReceiveKeepsCode(t) ==
  /\ calls[t].pc = "wait" /\ socket # <<>>
  /\ LET r == Head(socket)
         code == ReplyCode(t, r)
     IN Finish(t, IF retcode = "error" THEN retcode ELSE code,
               Copied(code, r))
  /\ socket' = Tail(socket)
  /\ UNCHANGED <<sent, pending, timeouts, lost, verdict>>

Receive(t) ==
  /\ calls[t].pc = "wait" /\ socket # <<>>
  /\ LET r == Head(socket)
         code == ReplyCode(t, r)
     IN Finish(t, code, Copied(code, r))
  /\ socket' = Tail(socket)
  /\ UNCHANGED <<sent, pending, timeouts, lost, verdict>>

(* No reply within reply_timeout_secs.                                     *)
Timeout(t) ==
  /\ calls[t].pc = "wait" /\ socket = <<>>
  /\ timeouts < MaxTimeouts \/ pending = <<>>
  /\ Finish(t, "error", recv)
  /\ timeouts' = timeouts + 1
  /\ UNCHANGED <<sent, pending, socket, lost, verdict>>

-----------------------------------------------------------------------------
(* The calls of DriverManager after send_command returned.                 *)
Advance(t, call) ==
  /\ calls' = [calls EXCEPT ![t] = call]
  /\ UNCHANGED <<mutex, sent, pending, socket, retcode, recv, timeouts, lost, verdict>>

TestCode(t) ==
  /\ calls[t].pc = "test"
  /\ Advance(t, [calls[t] EXCEPT !.pc = IF retcode = "ok" THEN "copy" ELSE "return"])

CopyData(t) ==
  /\ calls[t].pc = "copy"
  /\ Advance(t, [calls[t] EXCEPT !.pc = "return", !.data = recv])

Return(t) ==
  /\ calls[t].pc = "return"
  /\ Advance(t, [calls[t] EXCEPT !.pc = "done", !.code = retcode])

-----------------------------------------------------------------------------
(* The driver answers the commands in the order it got them.               *)
DriverReply(code) ==
  /\ pending # <<>>
  /\ verdict' = [verdict EXCEPT ![Head(pending).num] = code]
  /\ pending' = Tail(pending)
  /\ \/ /\ socket' = Append(socket, [num |-> Head(pending).num, id |-> Head(pending).id,
                                     code |-> code])
        /\ UNCHANGED lost
     \/ /\ lost < MaxLost
        /\ lost' = lost + 1
        /\ UNCHANGED socket
  /\ UNCHANGED <<mutex, sent, retcode, recv, calls, timeouts>>

(* The last command has returned: nothing more is asked of the model.      *)
Horizon ==
  /\ sent = MaxCommands /\ pending = <<>>
  /\ \A t \in Threads : calls[t].pc = "done"
  /\ UNCHANGED vars

Next ==
  \/ \E t \in Threads : \/ \E id \in Ids : Send(t, id)
                        \/ Receive(t) \/ Timeout(t)
                        \/ TestCode(t) \/ CopyData(t) \/ Return(t)
  \/ \E code \in Codes : DriverReply(code)
  \/ Horizon

Spec == Init /\ [][Next]_vars

-----------------------------------------------------------------------------
(* Properties.                                                             *)

(* A call that no other command ended beside never gets the reply of a     *)
(* command more than one per timeout behind its own, and never of a later  *)
(* one: without timeouts it gets its own.                                  *)
LagBounded ==
  \A t \in Threads :
    LET c == calls[t] IN
    c.pc = "done" /\ c.shared = "no" /\ c.data # 0
      => c.data \in c.num - timeouts..c.num

(* Such a call returns success exactly when the driver did what it asked,  *)
(* as long as no command timed out.                                        *)
CodeFaithful ==
  \A t \in Threads :
    LET c == calls[t] IN
    c.pc = "done" /\ c.num # 0 /\ c.shared = "no" /\ timeouts = 0
      => verdict[c.num] = c.code

(* "one command at a time" (driver_handler.hpp, mutex_): whatever other    *)
(* threads do, a call that succeeds returns the data of its own command,   *)
(* as long as no command timed out.                                        *)
OwnReply ==
  \A t \in Threads :
    LET c == calls[t] IN
    c.pc = "done" /\ c.num # 0 /\ c.id \in DataIds /\ c.code = "ok" /\ timeouts = 0
      => c.data = c.num
=============================================================================
