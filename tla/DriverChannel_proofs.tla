------------------------ MODULE DriverChannel_proofs ------------------------
(* What a call of DriverManager can be told, for any number of threads,    *)
(* message ids, commands, late and lost replies.                           *)
EXTENDS DriverChannel, TLAPS

(* 1 while a command waits for its reply.                                  *)
Waiting == IF mutex = Nobody THEN 0 ELSE 1

(* The replies still to come, in the socket and in the driver, are those   *)
(* of the last commands: one for each timeout and the one waited for, in   *)
(* the order of the commands.                                              *)
Fifo ==
  /\ \A k \in 1..Len(socket) :
       socket[k].num > sent - timeouts - Waiting /\ socket[k].num <= sent
  /\ \A k \in 1..Len(pending) :
       pending[k].num > sent - timeouts - Waiting /\ pending[k].num <= sent
  /\ \A j, k \in 1..Len(socket) : j < k => socket[j].num < socket[k].num
  /\ \A j, k \in 1..Len(pending) : j < k => pending[j].num < pending[k].num
  /\ \A j \in 1..Len(socket), k \in 1..Len(pending) : socket[j].num < pending[k].num

(* The command waited for is the last one sent, and its reply will have    *)
(* its message id.                                                         *)
Turn ==
  \A t \in Threads :
    /\ calls[t].num <= sent
    /\ calls[t].pc = "wait" =>
         /\ calls[t].num = sent
         /\ \A k \in 1..Len(socket) : socket[k].num = sent => socket[k].id = calls[t].id
         /\ \A k \in 1..Len(pending) : pending[k].num = sent => pending[k].id = calls[t].id
    /\ calls[t].pc # "wait" /\ mutex # Nobody => calls[t].num < sent

(* Between the end of send_command and the return of the call, as long as  *)
(* no other command has ended: retcode_ and recv_data_ are the call's own. *)
Settled ==
  \A t \in Threads :
    LET c == calls[t] IN
    /\ c.pc \in {"wait", "test", "copy"} => c.data = 0
    /\ c.shared = "no" =>
         /\ c.pc \in {"test", "copy"} /\ retcode = "ok" =>
              recv >= c.num - timeouts /\ recv <= c.num
         /\ c.pc = "copy" => retcode = "ok"
         /\ c.pc = "return" /\ c.data # 0 =>
              c.data >= c.num - timeouts /\ c.data <= c.num
         /\ c.pc \in {"test", "copy", "return"} /\ timeouts = 0 /\ c.num # 0 =>
              verdict[c.num] = retcode

IInv == TypeOK /\ Fifo /\ Turn /\ Settled /\ LagBounded /\ CodeFaithful

-----------------------------------------------------------------------------
(* What taking the first element of a queue leaves.                        *)
LEMMA TailFacts ==
  ASSUME NEW S, NEW q \in Seq(S), q # <<>>
  PROVE  /\ Head(q) = q[1] /\ Head(q) \in S /\ 1 \in 1..Len(q)
         /\ Tail(q) \in Seq(S) /\ Len(Tail(q)) = Len(q) - 1
         /\ \A k \in 1..Len(Tail(q)) : k + 1 \in 1..Len(q) /\ Tail(q)[k] = q[k + 1]
  OBVIOUS

(* What adding one at the end does.                                        *)
LEMMA AppendFacts ==
  ASSUME NEW S, NEW q \in Seq(S), NEW e \in S
  PROVE  /\ Append(q, e) \in Seq(S) /\ Len(Append(q, e)) = Len(q) + 1
         /\ Append(q, e)[Len(q) + 1] = e
         /\ \A k \in 1..Len(q) : Append(q, e)[k] = q[k]
  OBVIOUS

(* The channel starts empty.                                               *)
LEMMA InitIInv == Init => IInv
  BY ChannelConstants
     DEF Init, IInv, TypeOK, Fifo, Turn, Settled, LagBounded, CodeFaithful, Waiting,
         Codes, Commands, Command, Reply, Call

(* The members of a call and of a message have their types.                *)
LEMMA Parts ==
  ASSUME TypeOK
  PROVE  /\ sent \in Nat /\ timeouts \in Nat /\ recv \in Nat /\ MaxCommands \in Nat
         /\ \A t \in Threads : /\ calls[t] \in Call
                               /\ calls[t].num \in Nat /\ calls[t].num \in Commands \cup {0}
                               /\ calls[t].data \in Nat
         /\ \A k \in 1..Len(socket) : socket[k] \in Reply /\ socket[k].num \in Nat
         /\ \A k \in 1..Len(pending) : pending[k] \in Command /\ pending[k].num \in Nat
  <1>1. sent \in Nat /\ timeouts \in Nat /\ recv \in Nat /\ MaxCommands \in Nat
    BY ChannelConstants DEF TypeOK
  <1>2. ASSUME NEW t \in Threads
        PROVE  /\ calls[t] \in Call
               /\ calls[t].num \in Nat /\ calls[t].num \in Commands \cup {0}
               /\ calls[t].data \in Nat
    BY DEF TypeOK, Call, Commands
  <1>3. ASSUME NEW k \in 1..Len(socket) PROVE socket[k] \in Reply /\ socket[k].num \in Nat
    <2>1. socket[k] \in Reply
      BY DEF TypeOK
    <2> QED
      BY <2>1 DEF Reply, Commands
  <1>4. ASSUME NEW k \in 1..Len(pending) PROVE pending[k] \in Command /\ pending[k].num \in Nat
    <2>1. pending[k] \in Command
      BY DEF TypeOK
    <2> QED
      BY <2>1 DEF Command, Commands
  <1> QED
    BY <1>1, <1>2, <1>3, <1>4

(* A command is sent when no other one waits.                              *)
LEMMA SendStep ==
  ASSUME IInv, NEW t \in Threads, NEW id \in Ids, Send(t, id)
  PROVE  IInv'
  <1> DEFINE c == [pc |-> "wait", num |-> sent + 1, id |-> id,
                   data |-> 0, code |-> "ok", shared |-> "no"]
             m == [num |-> sent + 1, id |-> id]
  <1>1. TypeOK /\ Fifo /\ Turn /\ Settled /\ LagBounded /\ CodeFaithful
    BY DEF IInv
  <1>2. /\ mutex = Nobody /\ mutex' = t /\ t # Nobody /\ sent < MaxCommands
        /\ sent' = sent + 1 /\ pending' = Append(pending, m)
        /\ calls' = [calls EXCEPT ![t] = c]
        /\ UNCHANGED <<socket, retcode, recv, timeouts, lost, verdict>>
    BY ChannelConstants DEF Send, Begin
  <1>3. c \in Call /\ m \in Command
    BY <1>1, <1>2, Parts DEF Call, Command, Commands, Codes
  <1>4. /\ calls' \in [Threads -> Call] /\ calls'[t] = c
        /\ \A u \in Threads : u # t => calls'[u] = calls[u]
    BY <1>1, <1>2, <1>3 DEF TypeOK
  <1>5. /\ pending' \in Seq(Command) /\ Len(pending') = Len(pending) + 1
        /\ pending'[Len(pending) + 1] = m
        /\ \A k \in 1..Len(pending) : pending'[k] = pending[k]
    BY <1>1, <1>2, <1>3, AppendFacts DEF TypeOK
  <1>6. /\ c.pc = "wait" /\ c.num = sent + 1 /\ c.id = id /\ c.data = 0
        /\ c.shared = "no" /\ m.num = sent + 1 /\ m.id = id
    OBVIOUS
  <1>7. Waiting = 0 /\ Waiting' = 1
    BY <1>2 DEF Waiting
  <1>8. \A u \in Threads : calls[u].pc # "wait"
    BY <1>1, <1>2, ChannelConstants DEF TypeOK
  <1> HIDE DEF c, m
  <1>9. TypeOK'
    BY <1>1, <1>2, <1>4, <1>5, <1>6, <1>8, Parts, ChannelConstants DEF TypeOK
  <1>10. Fifo'
    <2>1. /\ sent \in Nat /\ timeouts \in Nat /\ Len(pending) \in Nat
          /\ \A k \in 1..Len(pending) : pending[k].num \in Nat
          /\ \A k \in 1..Len(socket) : socket[k].num \in Nat
      BY <1>1, Parts DEF TypeOK
    <2>2. \A k \in 1..Len(pending') : k \in 1..Len(pending) \/ k = Len(pending) + 1
      BY <1>5, <2>1
    <2>3. \A k \in 1..Len(socket') :
            socket'[k].num > sent' - timeouts' - Waiting' /\ socket'[k].num <= sent'
      BY <1>1, <1>2, <1>7, <2>1 DEF Fifo
    <2>4. /\ pending'[Len(pending) + 1].num = sent + 1
          /\ \A k \in 1..Len(pending) : pending'[k].num = pending[k].num
      BY <1>5, <1>6
    <2>5. ASSUME NEW k \in 1..Len(pending')
          PROVE  pending'[k].num > sent' - timeouts' - Waiting' /\ pending'[k].num <= sent'
      <3>1. CASE k \in 1..Len(pending)
        BY <1>1, <1>2, <1>7, <2>1, <2>4, <3>1 DEF Fifo
      <3>2. CASE k = Len(pending) + 1
        BY <1>2, <1>7, <2>1, <2>4, <3>2
      <3> QED
        BY <2>2, <3>1, <3>2
    <2>6. ASSUME NEW j \in 1..Len(pending'), NEW k \in 1..Len(pending'), j < k
          PROVE  pending'[j].num < pending'[k].num
      <3>1. j \in 1..Len(pending)
        BY <1>5, <2>1, <2>6
      <3>2. CASE k \in 1..Len(pending)
        BY <1>1, <2>4, <2>6, <3>1, <3>2 DEF Fifo
      <3>3. CASE k = Len(pending) + 1
        <4>1. pending[j].num <= sent
          BY <1>1, <3>1 DEF Fifo
        <4> QED
          BY <2>1, <2>4, <3>1, <3>3, <4>1
      <3> QED
        BY <2>2, <3>2, <3>3
    <2>7. ASSUME NEW j \in 1..Len(socket'), NEW k \in 1..Len(pending')
          PROVE  socket'[j].num < pending'[k].num
      <3>1. CASE k \in 1..Len(pending)
        BY <1>1, <1>2, <2>4, <3>1 DEF Fifo
      <3>2. CASE k = Len(pending) + 1
        <4>1. socket[j].num <= sent /\ socket[j].num \in Nat
          BY <1>1, <1>2, <2>1 DEF Fifo
        <4> QED
          BY <1>2, <2>1, <2>4, <3>2, <4>1
      <3> QED
        BY <2>2, <3>1, <3>2
    <2>8. \A j, k \in 1..Len(socket') : j < k => socket'[j].num < socket'[k].num
      BY <1>1, <1>2 DEF Fifo
    <2> QED
      BY <2>3, <2>5, <2>6, <2>7, <2>8 DEF Fifo
  <1>11. Turn'
    <2> SUFFICES ASSUME NEW u \in Threads
                 PROVE  /\ calls'[u].num <= sent'
                        /\ calls'[u].pc = "wait" =>
                             /\ calls'[u].num = sent'
                             /\ \A k \in 1..Len(socket') :
                                  socket'[k].num = sent' => socket'[k].id = calls'[u].id
                             /\ \A k \in 1..Len(pending') :
                                  pending'[k].num = sent' => pending'[k].id = calls'[u].id
                        /\ calls'[u].pc # "wait" /\ mutex' # Nobody => calls'[u].num < sent'
      BY DEF Turn
    <2>1. CASE u = t
      BY <2>1, <1>1, <1>2, <1>4, <1>5, <1>6, Parts DEF Fifo, TypeOK
    <2>2. CASE u # t
      BY <2>2, <1>1, <1>2, <1>4, <1>8, Parts DEF Turn
    <2> QED
      BY <2>1, <2>2
  <1>12. Settled'
    BY <1>1, <1>2, <1>4, <1>6 DEF Settled
  <1>13. LagBounded' /\ CodeFaithful'
    BY <1>1, <1>2, <1>4, <1>6 DEF LagBounded, CodeFaithful
  <1> QED
    BY <1>9, <1>10, <1>11, <1>12, <1>13 DEF IInv

(* A command ends, with a code that is right when nothing timed out and    *)
(* with data no further behind than the timeouts.  Receive and Timeout say *)
(* which.                                                                  *)
LEMMA FinishStep ==
  ASSUME IInv, NEW t \in Threads, calls[t].pc = "wait",
         NEW code \in Codes, NEW data \in 0..MaxCommands, Finish(t, code, data),
         UNCHANGED <<sent, pending, lost, verdict>>,
         timeouts' \in Nat, timeouts' >= timeouts,
         code = "ok" /\ calls[t].id \in DataIds =>
           data >= calls[t].num - timeouts /\ data <= calls[t].num,
         timeouts' = 0 => verdict[calls[t].num] = code,
         socket' \in Seq(Reply), Fifo',
         \A k \in 1..Len(socket') : \E j \in 1..Len(socket) : socket'[k] = socket[j]
  PROVE  IInv'
  <1>1. TypeOK /\ Fifo /\ Turn /\ Settled /\ LagBounded /\ CodeFaithful
    BY DEF IInv
  <1>2. /\ retcode' = code /\ recv' = data /\ mutex' = Nobody /\ mutex = t
        /\ calls[t].num = sent /\ calls[t].data = 0
    <2>1. retcode' = code /\ recv' = data /\ mutex' = Nobody /\ mutex = t
      BY <1>1 DEF Finish, TypeOK
    <2>2. calls[t].num = sent /\ calls[t].data = 0
      BY <1>1 DEF Turn, Settled
    <2> QED
      BY <2>1, <2>2
  <1>3. /\ calls'[t] \in Call /\ calls'[t].num = calls[t].num /\ calls'[t].data = 0
        /\ calls'[t].pc = (IF calls[t].id \in DataIds THEN "test" ELSE "return")
        /\ calls'[t].shared = calls[t].shared
    <2>1. calls[t] \in Call
      BY <1>1, Parts
    <2>2. calls'[t] = [calls[t] EXCEPT !.pc = IF calls[t].id \in DataIds THEN "test"
                                                                         ELSE "return"]
      BY DEF Finish
    <2> QED
      BY <1>2, <2>1, <2>2 DEF Call
  <1>4. ASSUME NEW u \in Threads, u # t
        PROVE  /\ calls'[u] \in Call /\ calls'[u].num = calls[u].num
               /\ calls'[u].data = calls[u].data /\ calls'[u].pc = calls[u].pc
               /\ calls'[u].code = calls[u].code
               /\ calls'[u].pc # "wait"
               /\ calls'[u].shared = "no" => calls[u].pc = "done" /\ calls[u].shared = "no"
    <2>1. calls[u] \in Call
      BY <1>1, Parts
    <2>2. calls'[u] = [calls[u] EXCEPT !.shared = IF calls[u].pc \in {"test", "copy", "return"}
                                                  THEN "yes" ELSE @]
      BY <1>4 DEF Finish
    <2>3. calls[u].pc # "wait"
      BY <1>1, <1>2, <1>4 DEF TypeOK
    <2> QED
      BY <2>1, <2>2, <2>3 DEF Call
  <1>5. /\ sent \in Nat /\ timeouts \in Nat /\ data \in Nat
        /\ \A u \in Threads : calls[u].num \in Nat /\ calls[u].data \in Nat
    BY <1>1, Parts, ChannelConstants
  <1>6. TypeOK'
    <2>1. calls' \in [Threads -> Call]
      BY <1>3, <1>4 DEF Finish
    <2>2. \A u \in Threads : calls'[u].pc = "wait" <=> mutex' = u
      BY <1>2, <1>3, <1>4, ChannelConstants
    <2>3. \A k \in 1..Len(socket') : verdict'[socket'[k].num] = socket'[k].code
      BY <1>1 DEF TypeOK
    <2> QED
      BY <1>1, <1>2, <2>1, <2>2, <2>3 DEF TypeOK
  <1>7. Turn'
    BY <1>1, <1>2, <1>3, <1>4 DEF Turn
  <1>8. Settled'
    <2> SUFFICES ASSUME NEW u \in Threads
                 PROVE  LET d == calls'[u] IN
                        /\ d.pc \in {"wait", "test", "copy"} => d.data = 0
                        /\ d.shared = "no" =>
                             /\ d.pc \in {"test", "copy"} /\ retcode' = "ok" =>
                                  recv' >= d.num - timeouts' /\ recv' <= d.num
                             /\ d.pc = "copy" => retcode' = "ok"
                             /\ d.pc = "return" /\ d.data # 0 =>
                                  d.data >= d.num - timeouts' /\ d.data <= d.num
                             /\ d.pc \in {"test", "copy", "return"} /\ timeouts' = 0
                                /\ d.num # 0 => verdict'[d.num] = retcode'
      BY DEF Settled
    <2>1. CASE u = t
      BY <1>2, <1>3, <1>5, <2>1
    <2>2. CASE u # t
      BY <1>1, <1>4, <2>2 DEF Settled
    <2> QED
      BY <2>1, <2>2
  <1>9. LagBounded'
    <2> SUFFICES ASSUME NEW u \in Threads, calls'[u].pc = "done", calls'[u].shared = "no",
                        calls'[u].data # 0
                 PROVE  calls'[u].data \in calls'[u].num - timeouts'..calls'[u].num
      BY DEF LagBounded
    <2>1. u # t
      BY <1>3
    <2> QED
      BY <1>1, <1>4, <1>5, <2>1 DEF LagBounded
  <1>10. CodeFaithful'
    <2> SUFFICES ASSUME NEW u \in Threads, calls'[u].pc = "done", calls'[u].num # 0,
                        calls'[u].shared = "no", timeouts' = 0
                 PROVE  verdict'[calls'[u].num] = calls'[u].code
      BY DEF CodeFaithful
    <2>1. u # t /\ timeouts = 0
      BY <1>3, <1>5
    <2> QED
      BY <1>1, <1>4, <2>1 DEF CodeFaithful
  <1> QED
    BY <1>6, <1>7, <1>8, <1>9, <1>10 DEF IInv

(* A reply is read.  It answers the command waited for or one given up     *)
(* before.                                                                 *)
LEMMA ReceiveStep ==
  ASSUME IInv, NEW t \in Threads, Receive(t)
  PROVE  IInv'
  <1> DEFINE r == Head(socket)
             code == ReplyCode(t, r)
             data == Copied(code, r)
  <1>1. TypeOK /\ Fifo /\ Turn
    BY DEF IInv
  <1>2. /\ calls[t].pc = "wait" /\ socket # <<>> /\ Finish(t, code, data)
        /\ socket' = Tail(socket)
        /\ UNCHANGED <<sent, pending, timeouts, lost, verdict>>
    BY DEF Receive
  <1>3. /\ r = socket[1] /\ r \in Reply /\ 1 \in 1..Len(socket) /\ socket' \in Seq(Reply)
        /\ Len(socket') = Len(socket) - 1
        /\ \A k \in 1..Len(socket') : k + 1 \in 1..Len(socket) /\ socket'[k] = socket[k + 1]
    BY <1>1, <1>2, TailFacts DEF TypeOK
  <1>4. mutex = t /\ Waiting = 1 /\ calls[t].num = sent
    BY <1>1, <1>2, ChannelConstants DEF TypeOK, Waiting, Turn
  <1>5. mutex' = Nobody /\ Waiting' = 0
    BY <1>2 DEF Finish, Waiting
  <1>6. /\ sent \in Nat /\ timeouts \in Nat /\ Len(socket) \in Nat
        /\ \A k \in 1..Len(socket) : socket[k].num \in Nat
        /\ \A k \in 1..Len(pending) : pending[k].num \in Nat
    BY <1>1, Parts DEF TypeOK
  <1>7. r.num > sent - timeouts - 1 /\ r.num <= sent /\ r.num \in Nat
    BY <1>1, <1>3, <1>4, <1>6 DEF Fifo
  <1>8. code \in Codes /\ data \in 0..MaxCommands
    <2>1. r.code \in Codes /\ r.num \in 0..MaxCommands
      BY <1>3, ChannelConstants DEF Reply, Commands
    <2> QED
      BY <1>1, <2>1 DEF ReplyCode, Copied, Codes, TypeOK
  <1>9. code = "ok" /\ calls[t].id \in DataIds =>
          data >= calls[t].num - timeouts /\ data <= calls[t].num
    BY <1>4, <1>6, <1>7 DEF ReplyCode, Copied
  <1>10. ASSUME timeouts' = 0 PROVE verdict[calls[t].num] = code
    <2>1. r.num = sent
      BY <1>2, <1>6, <1>7, <1>10
    <2>2. r.id = calls[t].id
      BY <1>1, <1>2, <1>3, <2>1 DEF Turn
    <2>3. verdict[r.num] = r.code
      BY <1>1, <1>3 DEF TypeOK
    <2> QED
      BY <1>4, <2>1, <2>2, <2>3 DEF ReplyCode
  <1>11. Fifo'
    <2>1. ASSUME NEW k \in 1..Len(socket')
          PROVE  socket'[k].num > r.num /\ socket'[k].num <= sent
      <3>1. k + 1 \in 1..Len(socket) /\ 1 < k + 1 /\ socket'[k] = socket[k + 1]
        BY <1>3, <1>6
      <3> QED
        BY <1>1, <1>3, <1>6, <3>1 DEF Fifo
    <2>2. ASSUME NEW k \in 1..Len(pending)
          PROVE  pending[k].num > r.num /\ pending[k].num <= sent
      BY <1>1, <1>3, <1>6 DEF Fifo
    <2>3. \A k \in 1..Len(socket') : socket'[k].num \in Nat
      BY <1>3, <1>6
    <2>4. \A k \in 1..Len(socket') :
            socket'[k].num > sent' - timeouts' - Waiting' /\ socket'[k].num <= sent'
      BY <1>2, <1>5, <1>6, <1>7, <2>1, <2>3
    <2>5. \A k \in 1..Len(pending') :
            pending'[k].num > sent' - timeouts' - Waiting' /\ pending'[k].num <= sent'
      BY <1>2, <1>5, <1>6, <1>7, <2>2
    <2>6. ASSUME NEW j \in 1..Len(socket'), NEW k \in 1..Len(socket'), j < k
          PROVE  socket'[j].num < socket'[k].num
      <3>1. j + 1 < k + 1 /\ j + 1 \in 1..Len(socket) /\ k + 1 \in 1..Len(socket)
        BY <1>3, <1>6, <2>6
      <3> QED
        BY <1>1, <1>3, <3>1 DEF Fifo
    <2>7. \A j \in 1..Len(socket'), k \in 1..Len(pending') : socket'[j].num < pending'[k].num
      BY <1>1, <1>2, <1>3 DEF Fifo
    <2>8. \A j, k \in 1..Len(pending') : j < k => pending'[j].num < pending'[k].num
      BY <1>1, <1>2 DEF Fifo
    <2> QED
      BY <2>4, <2>5, <2>6, <2>7, <2>8 DEF Fifo
  <1>12. \A k \in 1..Len(socket') : \E j \in 1..Len(socket) : socket'[k] = socket[j]
    BY <1>3
  <1> HIDE DEF code, data, r
  <1> QED
    BY <1>2, <1>3, <1>6, <1>8, <1>9, <1>10, <1>11, <1>12, FinishStep

(* The wait is given up: the reply, if there is one to come, stays for     *)
(* another command.                                                        *)
LEMMA TimeoutStep ==
  ASSUME IInv, NEW t \in Threads, Timeout(t)
  PROVE  IInv'
  <1>1. TypeOK /\ Fifo
    BY DEF IInv
  <1>2. /\ calls[t].pc = "wait" /\ Finish(t, "error", recv) /\ timeouts' = timeouts + 1
        /\ UNCHANGED <<sent, pending, socket, lost, verdict>>
    BY DEF Timeout
  <1>3. "error" \in Codes /\ recv \in 0..MaxCommands /\ timeouts \in Nat /\ sent \in Nat
    BY <1>1, Parts DEF TypeOK, Codes
  <1>4. Waiting = 1 /\ Waiting' = 0
    BY <1>1, <1>2, ChannelConstants DEF Finish, TypeOK, Waiting
  <1>5. sent' - timeouts' - Waiting' = sent - timeouts - Waiting
    BY <1>2, <1>3, <1>4
  <1>6. Fifo'
    BY <1>1, <1>2, <1>5 DEF Fifo
  <1>7. /\ timeouts' \in Nat /\ timeouts' >= timeouts /\ timeouts' # 0
        /\ socket' \in Seq(Reply)
        /\ \A k \in 1..Len(socket') : \E j \in 1..Len(socket) : socket'[k] = socket[j]
    BY <1>1, <1>2, <1>3 DEF TypeOK
  <1> QED
    BY <1>2, <1>3, <1>6, <1>7, FinishStep

-----------------------------------------------------------------------------
(* The steps of a call after send_command change the call and nothing      *)
(* else.                                                                   *)
LEMMA AdvanceStep ==
  ASSUME IInv, NEW t \in Threads, NEW c \in Call, Advance(t, c),
         calls[t].pc # "wait", c.pc # "wait", c.num = calls[t].num,
         c.shared = calls[t].shared,
         c.pc = "copy" => c.data = 0,
         c.pc # "test",
         c.shared = "no" =>
           /\ c.pc = "copy" => /\ retcode = "ok"
                               /\ recv >= c.num - timeouts /\ recv <= c.num
           /\ c.data # 0 => c.data >= c.num - timeouts /\ c.data <= c.num
           /\ timeouts = 0 /\ c.num # 0 => verdict[c.num] = retcode
           /\ c.pc = "done" => c.code = retcode
  PROVE  IInv'
  <1>1. TypeOK /\ Fifo /\ Turn /\ Settled /\ LagBounded /\ CodeFaithful
    BY DEF IInv
  <1>2. /\ UNCHANGED <<mutex, sent, pending, socket, retcode, recv, timeouts, lost, verdict>>
        /\ calls' \in [Threads -> Call] /\ calls'[t] = c
        /\ \A u \in Threads : u # t => calls'[u] = calls[u]
    BY <1>1 DEF Advance, TypeOK
  <1>3. TypeOK'
    BY <1>1, <1>2 DEF TypeOK
  <1>4. Fifo'
    BY <1>1, <1>2 DEF Fifo, Waiting
  <1>5. Turn'
    BY <1>1, <1>2 DEF Turn
  <1>6. Settled'
    BY <1>1, <1>2 DEF Settled
  <1>7. LagBounded'
    <2> SUFFICES ASSUME NEW u \in Threads, calls'[u].pc = "done", calls'[u].shared = "no",
                        calls'[u].data # 0
                 PROVE  calls'[u].data \in calls'[u].num - timeouts'..calls'[u].num
      BY DEF LagBounded
    <2>1. CASE u = t
      <3>1. c.data \in Nat /\ c.num \in Nat /\ timeouts \in Nat
        BY <1>1, ChannelConstants DEF TypeOK, Call, Commands
      <3>2. c.data >= c.num - timeouts /\ c.data <= c.num
        BY <1>2, <2>1
      <3> QED
        BY <1>2, <2>1, <3>1, <3>2
    <2>2. CASE u # t
      BY <1>1, <1>2, <2>2 DEF LagBounded
    <2> QED
      BY <2>1, <2>2
  <1>8. CodeFaithful'
    BY <1>1, <1>2 DEF CodeFaithful
  <1> QED
    BY <1>3, <1>4, <1>5, <1>6, <1>7, <1>8 DEF IInv

(* if (!retcode_).                                                         *)
LEMMA TestStep ==
  ASSUME IInv, NEW t \in Threads, TestCode(t)
  PROVE  IInv'
  <1> DEFINE c == [calls[t] EXCEPT !.pc = IF retcode = "ok" THEN "copy" ELSE "return"]
  <1>1. TypeOK /\ Settled /\ calls[t] \in Call
    BY Parts DEF IInv
  <1>2. calls[t].pc = "test" /\ Advance(t, c)
    BY DEF TestCode
  <1>3. /\ c \in Call /\ c.num = calls[t].num /\ c.data = calls[t].data
        /\ c.shared = calls[t].shared
        /\ c.pc = (IF retcode = "ok" THEN "copy" ELSE "return")
    BY <1>1 DEF Call
  <1>4. /\ calls[t].data = 0
        /\ calls[t].shared = "no" =>
             /\ retcode = "ok" => recv >= calls[t].num - timeouts /\ recv <= calls[t].num
             /\ timeouts = 0 /\ calls[t].num # 0 => verdict[calls[t].num] = retcode
    BY <1>1, <1>2 DEF Settled
  <1> HIDE DEF c
  <1> QED
    BY <1>2, <1>3, <1>4, AdvanceStep

(* memcpy from recv_data_.                                                 *)
LEMMA CopyStep ==
  ASSUME IInv, NEW t \in Threads, CopyData(t)
  PROVE  IInv'
  <1> DEFINE c == [calls[t] EXCEPT !.pc = "return", !.data = recv]
  <1>1. TypeOK /\ Settled /\ calls[t] \in Call
    BY Parts DEF IInv
  <1>2. calls[t].pc = "copy" /\ Advance(t, c)
    BY DEF CopyData
  <1>3. recv \in Commands \cup {0}
    BY <1>1, ChannelConstants DEF TypeOK, Commands
  <1>4. /\ c \in Call /\ c.num = calls[t].num /\ c.data = recv
        /\ c.shared = calls[t].shared /\ c.pc = "return"
    BY <1>1, <1>3 DEF Call
  <1>5. calls[t].shared = "no" =>
          /\ recv >= calls[t].num - timeouts /\ recv <= calls[t].num
          /\ timeouts = 0 /\ calls[t].num # 0 => verdict[calls[t].num] = retcode
    BY <1>1, <1>2 DEF Settled
  <1> HIDE DEF c
  <1> QED
    BY <1>2, <1>4, <1>5, AdvanceStep

(* return retcode_.                                                        *)
LEMMA ReturnStep ==
  ASSUME IInv, NEW t \in Threads, Return(t)
  PROVE  IInv'
  <1> DEFINE c == [calls[t] EXCEPT !.pc = "done", !.code = retcode]
  <1>1. TypeOK /\ Settled /\ calls[t] \in Call /\ retcode \in Codes
    BY Parts DEF IInv, TypeOK
  <1>2. calls[t].pc = "return" /\ Advance(t, c)
    BY DEF Return
  <1>3. /\ c \in Call /\ c.num = calls[t].num /\ c.data = calls[t].data
        /\ c.shared = calls[t].shared /\ c.pc = "done" /\ c.code = retcode
    BY <1>1 DEF Call
  <1>4. calls[t].shared = "no" =>
          /\ calls[t].data # 0 =>
               calls[t].data >= calls[t].num - timeouts /\ calls[t].data <= calls[t].num
          /\ timeouts = 0 /\ calls[t].num # 0 => verdict[calls[t].num] = retcode
    BY <1>1, <1>2 DEF Settled
  <1> HIDE DEF c
  <1> QED
    BY <1>2, <1>3, <1>4, AdvanceStep

-----------------------------------------------------------------------------
(* The driver answers the oldest command.  When nothing has timed out that *)
(* is the one waited for, so that no finished call sees its verdict        *)
(* change.                                                                 *)
LEMMA DriverStep ==
  ASSUME IInv, NEW code \in Codes, DriverReply(code)
  PROVE  IInv'
  <1> DEFINE p == Head(pending)
             r == [num |-> p.num, id |-> p.id, code |-> code]
  <1>1. TypeOK /\ Fifo /\ Turn /\ Settled /\ LagBounded /\ CodeFaithful
    BY DEF IInv
  <1>2. /\ pending # <<>> /\ pending' = Tail(pending)
        /\ verdict' = [verdict EXCEPT ![p.num] = code]
        /\ \/ socket' = Append(socket, r) /\ lost' = lost
           \/ socket' = socket /\ lost < MaxLost /\ lost' = lost + 1
        /\ UNCHANGED <<mutex, sent, retcode, recv, calls, timeouts>>
    BY DEF DriverReply
  <1>3. /\ p = pending[1] /\ p \in Command /\ 1 \in 1..Len(pending)
        /\ pending' \in Seq(Command) /\ Len(pending') = Len(pending) - 1
        /\ \A k \in 1..Len(pending') : k + 1 \in 1..Len(pending) /\ pending'[k] = pending[k + 1]
    BY <1>1, <1>2, TailFacts DEF TypeOK
  <1>4. /\ r \in Reply /\ r.num = p.num /\ r.id = p.id /\ r.code = code
        /\ p.num \in Commands /\ p.num \in Nat
    BY <1>3 DEF Command, Reply, Commands
  <1>5. /\ sent \in Nat /\ timeouts \in Nat /\ Len(pending) \in Nat /\ Len(socket) \in Nat
        /\ \A k \in 1..Len(socket) : socket[k].num \in Nat
        /\ \A k \in 1..Len(pending) : pending[k].num \in Nat
        /\ \A t \in Threads : calls[t].num \in Nat /\ calls[t].num \in Commands \cup {0}
    BY <1>1, Parts DEF TypeOK
  <1> HIDE DEF p, r
  <1>6. /\ socket' \in Seq(Reply)
        /\ \A k \in 1..Len(socket') :
             \/ k \in 1..Len(socket) /\ socket'[k] = socket[k]
             \/ k = Len(socket) + 1 /\ socket'[k] = r
    <2>1. CASE socket' = Append(socket, r)
      BY <1>1, <1>4, <1>5, <2>1, AppendFacts DEF TypeOK
    <2>2. CASE socket' = socket
      BY <1>1, <2>2 DEF TypeOK
    <2> QED
      BY <1>2, <2>1, <2>2
  <1>7. /\ verdict' \in [Commands -> Codes \cup {"none"}] /\ verdict'[p.num] = code
        /\ \A n \in Commands : n # p.num => verdict'[n] = verdict[n]
    BY <1>1, <1>2, <1>4 DEF TypeOK
  <1>8. TypeOK'
    <2>1. ASSUME NEW k \in 1..Len(socket') PROVE verdict'[socket'[k].num] = socket'[k].code
      <3>1. CASE k \in 1..Len(socket) /\ socket'[k] = socket[k]
        <4>1. socket[k].num < p.num /\ socket[k].num \in Commands
          BY <1>1, <1>3, <3>1, Parts DEF Fifo, Reply
        <4> QED
          BY <1>1, <1>4, <1>5, <1>7, <3>1, <4>1 DEF TypeOK
      <3>2. CASE socket'[k] = r
        BY <1>4, <1>7, <3>2
      <3> QED
        BY <1>6, <3>1, <3>2
    <2>2. lost' \in 0..MaxLost
      BY <1>1, <1>2, ChannelConstants DEF TypeOK
    <2> QED
      BY <1>1, <1>2, <1>3, <1>6, <1>7, <2>1, <2>2 DEF TypeOK
  <1>9. Fifo'
    <2>1. Waiting' = Waiting
      BY <1>2 DEF Waiting
    <2>2. ASSUME NEW k \in 1..Len(socket')
          PROVE  /\ socket'[k].num > sent - timeouts - Waiting /\ socket'[k].num <= sent
                 /\ socket'[k].num <= p.num
      BY <1>1, <1>3, <1>4, <1>5, <1>6 DEF Fifo
    <2>3. ASSUME NEW k \in 1..Len(pending')
          PROVE  /\ pending'[k].num > sent - timeouts - Waiting /\ pending'[k].num <= sent
                 /\ p.num < pending'[k].num
      <3>1. k + 1 \in 1..Len(pending) /\ 1 < k + 1
        BY <1>3, <1>5
      <3> QED
        BY <1>1, <1>3, <3>1 DEF Fifo
    <2>4. ASSUME NEW j \in 1..Len(socket'), NEW k \in 1..Len(socket'), j < k
          PROVE  socket'[j].num < socket'[k].num
      <3>1. j \in 1..Len(socket) /\ socket'[j] = socket[j]
        BY <1>5, <1>6, <2>4
      <3>2. CASE k \in 1..Len(socket) /\ socket'[k] = socket[k]
        BY <1>1, <2>4, <3>1, <3>2 DEF Fifo
      <3>3. CASE socket'[k] = r
        BY <1>1, <1>3, <1>4, <3>1, <3>3 DEF Fifo
      <3> QED
        BY <1>6, <3>2, <3>3
    <2>5. ASSUME NEW j \in 1..Len(pending'), NEW k \in 1..Len(pending'), j < k
          PROVE  pending'[j].num < pending'[k].num
      <3>1. j + 1 < k + 1 /\ j + 1 \in 1..Len(pending) /\ k + 1 \in 1..Len(pending)
        BY <1>3, <1>5, <2>5
      <3> QED
        BY <1>1, <1>3, <3>1 DEF Fifo
    <2>6. ASSUME NEW j \in 1..Len(socket'), NEW k \in 1..Len(pending')
          PROVE  socket'[j].num < pending'[k].num
      <3>1. socket'[j].num \in Nat /\ pending'[k].num \in Nat
        BY <1>3, <1>4, <1>5, <1>6
      <3> QED
        BY <1>4, <2>2, <2>3, <3>1
    <2> QED
      BY <1>2, <2>1, <2>2, <2>3, <2>4, <2>5, <2>6 DEF Fifo
  <1>10. Turn'
    <2> SUFFICES ASSUME NEW u \in Threads
                 PROVE  /\ calls'[u].num <= sent'
                        /\ calls'[u].pc = "wait" =>
                             /\ calls'[u].num = sent'
                             /\ \A k \in 1..Len(socket') :
                                  socket'[k].num = sent' => socket'[k].id = calls'[u].id
                             /\ \A k \in 1..Len(pending') :
                                  pending'[k].num = sent' => pending'[k].id = calls'[u].id
                        /\ calls'[u].pc # "wait" /\ mutex' # Nobody => calls'[u].num < sent'
      BY DEF Turn
    <2> QED
      BY <1>1, <1>2, <1>3, <1>4, <1>6 DEF Turn
  <1>11. ASSUME NEW u \in Threads, timeouts = 0, calls[u].pc # "wait", calls[u].num # 0
         PROVE  verdict'[calls[u].num] = verdict[calls[u].num]
    <2>1. p.num > sent - Waiting /\ p.num <= sent
      BY <1>1, <1>3, <1>5, <1>11 DEF Fifo
    <2>2. mutex # Nobody
      BY <1>4, <1>5, <2>1 DEF Waiting
    <2>3. calls[u].num < sent /\ p.num = sent
      BY <1>1, <1>4, <1>5, <1>11, <2>1, <2>2 DEF Turn, Waiting
    <2> QED
      BY <1>5, <1>7, <1>11, <2>3
  <1>12. Settled'
    BY <1>1, <1>2, <1>11 DEF Settled
  <1>13. LagBounded'
    BY <1>1, <1>2 DEF LagBounded
  <1>14. CodeFaithful'
    BY <1>1, <1>2, <1>11 DEF CodeFaithful
  <1> QED
    BY <1>8, <1>9, <1>10, <1>12, <1>13, <1>14 DEF IInv

-----------------------------------------------------------------------------
(* The invariant holds of every behaviour.                                 *)
LEMMA Inductive == Spec => []IInv
  <1>1. ASSUME IInv, [Next]_vars PROVE IInv'
    <2>1. CASE \E t \in Threads, id \in Ids : Send(t, id)
      BY <1>1, <2>1, SendStep
    <2>2. CASE \E t \in Threads : Receive(t)
      BY <1>1, <2>2, ReceiveStep
    <2>3. CASE \E t \in Threads : Timeout(t)
      BY <1>1, <2>3, TimeoutStep
    <2>4. CASE \E t \in Threads : TestCode(t)
      BY <1>1, <2>4, TestStep
    <2>5. CASE \E t \in Threads : CopyData(t)
      BY <1>1, <2>5, CopyStep
    <2>6. CASE \E t \in Threads : Return(t)
      BY <1>1, <2>6, ReturnStep
    <2>7. CASE \E code \in Codes : DriverReply(code)
      BY <1>1, <2>7, DriverStep
    <2>8. CASE UNCHANGED vars
      BY <1>1, <2>8
         DEF IInv, TypeOK, Fifo, Turn, Settled, LagBounded, CodeFaithful, Waiting, vars
    <2> QED
      BY <1>1, <2>1, <2>2, <2>3, <2>4, <2>5, <2>6, <2>7, <2>8 DEF Next, Horizon
  <1> QED
    BY InitIInv, <1>1, PTL DEF Spec

(* Types; only the thread inside send_command waits for a reply, and a     *)
(* reply in the socket is what the driver answered.                        *)
THEOREM ChannelTypes == Spec => []TypeOK
  <1>1. IInv => TypeOK
    BY DEF IInv
  <1> QED
    BY Inductive, <1>1, PTL

(* However many replies come late, data a call copies undisturbed is at    *)
(* most one command per timeout behind (send_command, recv_data_).         *)
THEOREM RepliesLag == Spec => []LagBounded
  <1>1. IInv => LagBounded
    BY DEF IInv
  <1> QED
    BY Inductive, <1>1, PTL

(* Without timeouts, the code an undisturbed call returns is the driver's  *)
(* verdict on the command it sent (send_command, retcode_).                *)
THEOREM CodesFaithful == Spec => []CodeFaithful
  <1>1. IInv => CodeFaithful
    BY DEF IInv
  <1> QED
    BY Inductive, <1>1, PTL
=============================================================================
