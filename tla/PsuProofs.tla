----------------------------- MODULE PsuProofs ------------------------------
(***************************************************************************)
(* What holds of the service loop whatever fails, whoever sends, and        *)
(* however long the queues are: for all values of the constants.  The reply *)
(* of a command forwarded on a silent serial line holds nothing but that    *)
(* command's answer (RepliesAreOwn), and the service as a whole implements  *)
(* ResponseAssembler (ServiceAssembles).                                    *)
(***************************************************************************)
EXTENDS PsuService, RaderProofs, WellFoundedInduction

(* The kernel gives the lowest descriptor that is free. *)
LEMMA LowestIsFree ==
  ASSUME Free # {}
  PROVE  LowestFree \in Free
<1>1. Free \subseteq Nat
  BY PsuAssumption DEF Free
<1>2. \E x \in Free : \A y \in Free : ~(<<y, x>> \in OpToRel(<, Nat))
  BY <1>1, NatLessThanWellFounded, WFMin
<1>3. PICK x \in Free : \A y \in Free : ~(<<y, x>> \in OpToRel(<, Nat))
  BY <1>2
<1>4. \A y \in Free : ~(y < x)
  BY <1>1, <1>3 DEF OpToRel
<1>5. \A y \in Free : x <= y
  BY <1>1, <1>4
<1> QED
  BY <1>5 DEF LowestFree

-----------------------------------------------------------------------------
(* The statics of rader.c, inside the service *)

(* Bytes of the radar's answers are what is read from the serial line. *)
SerialInv == RaderInv /\ uartIn \in Seq(Byte)

(* What the radar answers is made of bytes. *)
LEMMA AnswerType == ASSUME NEW cmd PROVE Answer(cmd) \in Seq(Byte)
<1> DEFINE flag == rader_flag(cmd)
           n == rader_dlen(flag)
<1>1. flag \in DataFlags \cup {0}
  BY FlagType
<1>2. n \in Nat
  BY <1>1, FlagLengths DEF rader_dlen
<1>3. 1 .. n # {} => flag \in Byte
  <2>1. n # 0 => flag \in DataFlags
    BY <1>1 DEF rader_dlen
  <2> QED
    BY <1>2, <2>1, PsuAssumption
<1>4. Answer(cmd) = [i \in 1 .. n |-> flag]
  BY DEF Answer
<1> HIDE DEF flag, n
<1> QED
  BY <1>2, <1>3, <1>4

(* Calls that write to the serial port leave bytes on the line. *)
LEMMA ToRadarType ==
  ASSUME uartIn \in Seq(Byte), ToRadar
  PROVE  uartIn' \in Seq(Byte)
<1>1. Answer(uartTx') \in Seq(Byte)
  BY AnswerType
<1>2. uartIn \o Answer(uartTx') \in Seq(Byte)
  BY <1>1, ConcatProperties
<1> QED
  BY <1>2 DEF ToRadar

(* A step that calls nothing of rader.c but may clear what it returned. *)
LEMMA QuietInv ==
  ASSUME RaderInv, Quiet \/ UNCHANGED raderVars
  PROVE  RaderInv'
BY DEF Quiet, raderVars, RaderInv, RaderTypeOK, AnswerInProgress, Sound

(* Serial reads are parts of what lies on the line. *)
LEMMA ReadType ==
  ASSUME NEW s \in Seq(Byte), NEW n \in 1 .. min(MaxRead, Len(s))
  PROVE  /\ SubSeq(s, 1, n) \in Seq(Byte) /\ Len(SubSeq(s, 1, n)) \in 1 .. MaxRead
         /\ SubSeq(s, n + 1, Len(s)) \in Seq(Byte)
<1>1. Len(s) \in Nat /\ n \in Nat /\ 1 <= n /\ n <= MaxRead /\ n <= Len(s)
  BY RaderAssumption DEF min
<1>2. \A i \in 1 .. Len(s) : s[i] \in Byte
  OBVIOUS
<1>3. SubSeq(s, 1, n) \in Seq(Byte) /\ Len(SubSeq(s, 1, n)) = n
  BY <1>1, <1>2, SubSeqProperties
<1>4. SubSeq(s, n + 1, Len(s)) \in Seq(Byte)
  BY <1>1, <1>2, SubSeqProperties
<1> QED
  BY <1>1, <1>3, <1>4, RaderAssumption

(* Every step of the service and its surroundings preserves SerialInv: only *)
(* five of them call rader.c.                                               *)
LEMMA SerialStep ==
  ASSUME SerialInv, [Next]_vars
  PROVE  SerialInv'
<1>0. RaderInv /\ uartIn \in Seq(Byte) /\ << >> \in Seq(Byte)
  BY DEF SerialInv
<1>1. CASE Uart
  <2> PICK n \in 1 .. min(MaxRead, Len(uartIn)) :
        /\ uartIn' = SubSeq(uartIn, n + 1, Len(uartIn))
        /\ IF tcpFd > 0 /\ tcp_connected # 0
             THEN rader_recv(SubSeq(uartIn, 1, n))
             ELSE Quiet
    BY <1>1 DEF Uart
  <2>1. /\ SubSeq(uartIn, 1, n) \in Seq(Byte)
        /\ Len(SubSeq(uartIn, 1, n)) \in 1 .. MaxRead
        /\ SubSeq(uartIn, n + 1, Len(uartIn)) \in Seq(Byte)
    BY <1>0, ReadType
  <2>2. RaderInv'
    BY <1>0, <2>1, RecvStep, QuietInv
  <2> QED
    BY <2>1, <2>2 DEF SerialInv
<1>2. CASE AutoF
  BY <1>0, <1>2, StdinStep, ToRadarType DEF AutoF, SerialInv
<1>3. CASE Stdin
  BY <1>0, <1>3, StdinStep, ToRadarType DEF Stdin, SerialInv
<1>4. CASE Tcp
  <2>1. \/ rader_cmd(Head(tcpIn)) /\ ToRadar
        \/ Quiet /\ UNCHANGED uartIn
    BY <1>4 DEF Tcp
  <2> QED
    BY <1>0, <2>1, CmdStep, ToRadarType, QuietInv DEF SerialInv
<1>5. CASE Udp
  BY <1>0, <1>5, CmdStep, ToRadarType DEF Udp, SerialInv
<1>6. CASE TcpConnected
  <2>1. RaderInv'
    BY <1>0, <1>6
       DEF TcpConnected, set_raderDlen, RaderInv, RaderTypeOK,
           AnswerInProgress, Sound
  <2> QED
    BY <1>0, <1>6, <2>1 DEF TcpConnected, SerialInv, queues
<1>7. CASE ByteLost
  <2>1. uartIn' \in Seq(Byte)
    BY <1>0, <1>7, HeadTailProperties DEF ByteLost
  <2> QED
    BY <1>0, <1>7, <2>1, QuietInv DEF ByteLost, Surroundings, SerialInv
<1>8. CASE /\ Quiet \/ UNCHANGED raderVars
           /\ uartIn' = << >> \/ UNCHANGED uartIn
  BY <1>0, <1>8, QuietInv DEF SerialInv
<1>9. CASE Process
  BY <1>1, <1>2, <1>3, <1>4, <1>5, <1>6, <1>8, <1>9
     DEF Process, OpenUart, StartTcp, StartUdp, Select, SelectTimeout,
         SelectError, TcpFailed, UartGone, TcpGone, ScanBlank, NotReady, Skip,
         queues
<1>10. CASE signal_func \/ Over \/ UNCHANGED vars
  BY <1>8, <1>10 DEF signal_func, Over, vars, queues
<1>11. CASE Environment
  BY <1>7, <1>8, <1>11
     DEF Environment, Accept, Refused, Hangup, Inputs, ServerSends,
         DatagramArrives, LineTyped, Unplugged, Surroundings, queues
<1> QED
  BY <1>9, <1>10, <1>11 DEF Next

-----------------------------------------------------------------------------
(* Types *)

TypeInv ==
  SerialInv /\ PsuTypeOK /\ udpIn \in Seq([from : Peers, buf : Datagrams])

(* The part of PsuTypeOK that the steps of the process change piecewise. *)
LEMMA TypeStep ==
  ASSUME TypeInv, [Next]_vars
  PROVE  TypeInv'
<1>0. /\ SerialInv' /\ RaderTypeOK'
      /\ PsuTypeOK /\ udpIn \in Seq([from : Peers, buf : Datagrams])
      /\ << >> \in Seq([from : Peers, buf : Datagrams])
  BY SerialStep DEF TypeInv, SerialInv, RaderInv
<1>1. Fds \subseteq Nat /\ {0, 1, 2} \cap Fds = {}
  BY PsuAssumption
<1>2. CASE OpenUart
  BY <1>0, <1>1, <1>2, LowestIsFree
     DEF OpenUart, TypeInv, PsuTypeOK, Free, queues, Status, Parts
<1>3. CASE StartTcp
  BY <1>0, <1>1, <1>3, LowestIsFree
     DEF StartTcp, NotConnected, Destination, TypeInv, PsuTypeOK, Free, queues,
         Status, Parts
<1>4. CASE StartUdp
  BY <1>0, <1>1, <1>4, LowestIsFree
     DEF StartUdp, TypeInv, PsuTypeOK, Free, queues, Status, Parts
<1>5. CASE Select
  BY <1>0, <1>1, <1>5
     DEF Select, WatchRead, WatchWrite, statics, queues, TypeInv, PsuTypeOK,
         Status, Parts
<1>6. CASE SelectTimeout
  BY <1>0, <1>6
     DEF SelectTimeout, statics, locals, queues, TypeInv, PsuTypeOK, Parts
<1>7. CASE SelectError
  BY <1>0, <1>7
     DEF SelectError, locals, TypeInv, PsuTypeOK, Status, Parts
<1>8. CASE TcpConnected
  BY <1>0, <1>8
     DEF TcpConnected, locals, queues, TypeInv, PsuTypeOK, Parts
<1>9. CASE TcpFailed
  BY <1>0, <1>9
     DEF TcpFailed, CloseTcpSocket, locals, TypeInv, PsuTypeOK, Status, Parts
<1>10. CASE Uart
  BY <1>0, <1>10 DEF Uart, statics, locals, TypeInv, PsuTypeOK, Parts
<1>11. CASE AutoF
  BY <1>0, <1>11 DEF AutoF, statics, locals, TypeInv, PsuTypeOK, Parts
<1>12. CASE Tcp
  BY <1>0, <1>12 DEF Tcp, statics, locals, TypeInv, PsuTypeOK, Parts
<1>13. CASE Udp
  <2>1. /\ Head(udpIn) \in [from : Peers, buf : Datagrams]
        /\ Tail(udpIn) \in Seq([from : Peers, buf : Datagrams])
    BY <1>0, <1>13, HeadTailProperties DEF Udp
  <2> QED
    BY <1>0, <1>13, <2>1
       DEF Udp, CloseTcpSocket, locals, TypeInv, PsuTypeOK, Status, Parts
<1>14. CASE Stdin
  BY <1>0, <1>14 DEF Stdin, statics, locals, TypeInv, PsuTypeOK, Parts
<1>15. CASE ScanBlank
  BY <1>0, <1>15 DEF ScanBlank, statics, locals, TypeInv, PsuTypeOK
<1>16. CASE UartGone \/ TcpGone \/ NotReady
  BY <1>0, <1>16
     DEF UartGone, TcpGone, NotReady, Skip, statics, locals, queues, TypeInv,
         PsuTypeOK, Parts
<1>17. CASE signal_func
  BY <1>0, <1>17
     DEF signal_func, statics, locals, TypeInv, PsuTypeOK, Status, Parts
<1>18. CASE Environment
  <2>1. CASE \E buf \in Datagrams, from \in Peers : DatagramArrives(from, buf)
    <3> PICK buf \in Datagrams, from \in Peers : DatagramArrives(from, buf)
      BY <2>1
    <3>1. udpIn' \in Seq([from : Peers, buf : Datagrams])
      BY <1>0, AppendProperties DEF DatagramArrives
    <3> QED
      BY <1>0, <3>1
         DEF DatagramArrives, Surroundings, statics, locals, TypeInv, PsuTypeOK
  <2>2. CASE ~ \E buf \in Datagrams, from \in Peers : DatagramArrives(from, buf)
    BY <1>0, <1>18, <2>2
       DEF Environment, Accept, Refused, Hangup, Inputs, ServerSends,
           LineTyped, ByteLost, Unplugged, Surroundings, statics, locals,
           queues, TypeInv, PsuTypeOK, Status
  <2> QED
    BY <2>1, <2>2
<1>19. CASE Over \/ UNCHANGED vars
  BY <1>0, <1>19
     DEF Over, vars, statics, locals, queues, TypeInv, PsuTypeOK
<1> QED
  BY <1>2, <1>3, <1>4, <1>5, <1>6, <1>7, <1>8, <1>9, <1>10, <1>11, <1>12,
     <1>13, <1>14, <1>15, <1>16, <1>17, <1>18, <1>19 DEF Next, Process

-----------------------------------------------------------------------------
(* Descriptors *)

(* a local of the pass and the field it was copied from *)
Same(local, field) ==
  local # 0 /\ (local > 0 \/ field > 0 => local = field)

(* From the part that copies a field to the part that may close what it     *)
(* names, copy and field agree; what select reported of the TCP socket is   *)
(* reading or writing, and only the latter may close it on the way.         *)
Cached ==
  /\ pc \in Parts \ {"OpenUart", "exited", "killed"} => Same(uartFd, uart_fd)
  /\ pc \in {"StartUdp", "Select", "TcpWritable"} => Same(tcpFd, tcp_fd)
  /\ pc \in {"Uart", "AutoF", "Tcp", "Udp"} => tcpFd # 0
  /\ pc \in {"Select", "TcpWritable", "Uart", "AutoF", "Tcp", "Udp", "Stdin"} =>
       Same(udpFd, udp_fd)
  /\ pc = "TcpWritable" => ~(tcpFd \in rfds /\ tcpFd \in wfds)
  /\ pc = "Uart" /\ tcpFd > 0 /\ tcp_connected # 0 => tcpFd = tcp_fd
  /\ pc \in {"Uart", "AutoF", "Tcp", "Udp"} /\ tcpFd \in rfds => tcpFd = tcp_fd

KernInv == TypeInv /\ DescriptorsOwned /\ Cached /\ ConnectedIsUp

(* Every step preserves them together: that a field is freed rests on the   *)
(* copy in the pass being the field, that the copy is still good rests on   *)
(* no two fields sharing a descriptor.                                      *)
LEMMA KernStep ==
  ASSUME KernInv, [Next]_vars
  PROVE  DescriptorsOwned' /\ Cached' /\ ConnectedIsUp'
<1>0. /\ TypeInv /\ TypeInv' /\ PsuTypeOK /\ PsuTypeOK'
      /\ DescriptorsOwned /\ Cached /\ ConnectedIsUp
  BY TypeStep DEF KernInv, TypeInv
<1>1. Fds \subseteq Nat /\ {0, 1, 2} \cap Fds = {}
  BY PsuAssumption
<1>2. CASE OpenUart
  <2>1. DescriptorsOwned'
    BY <1>0, <1>1, <1>2, LowestIsFree
       DEF OpenUart, DescriptorsOwned, Running, PsuTypeOK, Free
  <2>2. Cached'
    BY <1>0, <1>1, <1>2, LowestIsFree
       DEF OpenUart, Cached, Same, PsuTypeOK, Free, Parts
  <2> QED
    BY <1>0, <1>2, <2>1, <2>2 DEF OpenUart, ConnectedIsUp, Connected
<1>3. CASE StartTcp
  <2>1. DescriptorsOwned'
    BY <1>0, <1>1, <1>3, LowestIsFree
       DEF StartTcp, DescriptorsOwned, Running, PsuTypeOK, Free
  <2>2. Cached'
    BY <1>0, <1>1, <1>3, LowestIsFree
       DEF StartTcp, Cached, Same, PsuTypeOK, Free, Parts
  <2>3. ConnectedIsUp'
    BY <1>0, <1>3 DEF StartTcp, NotConnected, ConnectedIsUp, Connected
  <2> QED
    BY <2>1, <2>2, <2>3
<1>4. CASE StartUdp
  <2>1. DescriptorsOwned'
    BY <1>0, <1>1, <1>4, LowestIsFree
       DEF StartUdp, DescriptorsOwned, Running, PsuTypeOK, Free
  <2>2. Cached'
    BY <1>0, <1>1, <1>4, LowestIsFree
       DEF StartUdp, Cached, Same, PsuTypeOK, Free, Parts
  <2> QED
    BY <1>0, <1>4, <2>1, <2>2 DEF StartUdp, ConnectedIsUp, Connected
<1>5. CASE Select
  <2>1. ~(tcpFd \in rfds' /\ tcpFd \in wfds')
    <3> SUFFICES ASSUME tcpFd \in rfds', tcpFd \in wfds' PROVE FALSE
      OBVIOUS
    <3>1. tcpFd > 0 /\ tcp_connected = 0 /\ tcpFd \in WatchRead
      BY <1>5 DEF Select, WatchWrite
    <3>2. tcpFd = udpFd \/ tcpFd = uartFd
      BY <3>1 DEF WatchRead
    <3>3. /\ tcpFd = tcp_fd /\ tcp_fd \in Fds
          /\ udpFd > 0 => udpFd = udp_fd
          /\ uartFd > 0 => uartFd = uart_fd
      BY <1>0, <1>1, <1>5, <3>1 DEF Select, Cached, Same, Parts, PsuTypeOK
    <3>4. Running
      BY <1>5 DEF Select, Running
    <3> QED
      BY <1>0, <3>1, <3>2, <3>3, <3>4 DEF DescriptorsOwned
  <2>2. Cached'
    BY <1>0, <1>5, <2>1 DEF Select, statics, Cached, Parts
  <2> QED
    BY <1>0, <1>5, <2>2
       DEF Select, statics, DescriptorsOwned, Running, ConnectedIsUp, Connected
<1>6. CASE SelectTimeout
  BY <1>0, <1>6
     DEF SelectTimeout, statics, locals, DescriptorsOwned, Running, Cached,
         ConnectedIsUp, Connected
<1>7. CASE SelectError
  <2> DEFINE closed == {fd \in {uartFd, tcpFd, udpFd} : fd \in WatchRead}
  <2>1. /\ Same(uartFd, uart_fd) /\ Same(tcpFd, tcp_fd) /\ Same(udpFd, udp_fd)
        /\ Running
    BY <1>0, <1>7 DEF SelectError, Cached, Parts, Running
  <2>2. \A fd \in closed : fd > 0
    BY <1>0, <1>1, <2>1 DEF WatchRead, Same, PsuTypeOK
  <2>3. /\ kern' = [fd \in Fds |-> IF fd \in closed THEN "free" ELSE kern[fd]]
        /\ tcp_fd' = IF tcpFd \in closed THEN 0 ELSE tcp_fd
        /\ uart_fd' = IF uartFd \in closed THEN 0 ELSE uart_fd
        /\ udp_fd' = IF udpFd \in closed THEN 0 ELSE udp_fd
    BY <1>7 DEF SelectError
  <2>4. closed \subseteq {uartFd, tcpFd, udpFd}
    OBVIOUS
  <2> HIDE DEF closed
  <2>5. DescriptorsOwned'
    <3> SUFFICES ASSUME NEW fd \in Fds
                 PROVE  /\ kern'[fd] = "uart" <=> uart_fd' = fd
                        /\ kern'[fd] = "tcp" <=> tcp_fd' = fd
                        /\ kern'[fd] = "udp" <=> udp_fd' = fd
      BY DEF DescriptorsOwned
    <3>1. /\ kern[fd] = "uart" <=> uart_fd = fd
          /\ kern[fd] = "tcp" <=> tcp_fd = fd
          /\ kern[fd] = "udp" <=> udp_fd = fd
      BY <1>0, <2>1 DEF DescriptorsOwned
    <3>2. fd \in Nat /\ fd > 0
      BY <1>1
    <3>3. CASE fd \in closed
      BY <1>0, <1>1, <2>1, <2>2, <2>3, <2>4, <3>1, <3>2, <3>3
         DEF Same, PsuTypeOK
    <3>4. CASE fd \notin closed
      BY <1>0, <1>1, <2>1, <2>2, <2>3, <2>4, <3>1, <3>2, <3>4
         DEF Same, PsuTypeOK
    <3> QED
      BY <3>3, <3>4
  <2>6. Cached' /\ ConnectedIsUp'
    BY <1>0, <1>7 DEF SelectError, locals, Cached, ConnectedIsUp, Connected
  <2> QED
    BY <2>5, <2>6
<1>8. CASE TcpConnected
  BY <1>0, <1>8
     DEF TcpConnected, locals, DescriptorsOwned, Running, Cached, Same, Parts,
         ConnectedIsUp, Connected, PsuTypeOK
<1>9. CASE TcpFailed
  <2>1. DescriptorsOwned'
    BY <1>0, <1>1, <1>9
       DEF TcpFailed, CloseTcpSocket, DescriptorsOwned, Running, PsuTypeOK
  <2>2. Cached' /\ ConnectedIsUp'
    BY <1>0, <1>9
       DEF TcpFailed, CloseTcpSocket, locals, Cached, Same, Parts, PsuTypeOK,
           ConnectedIsUp, Connected
  <2> QED
    BY <2>1, <2>2
<1>10. CASE Udp
  <2>1. DescriptorsOwned'
    BY <1>0, <1>1, <1>10
       DEF Udp, CloseTcpSocket, DescriptorsOwned, Running, PsuTypeOK
  <2>2. Cached' /\ ConnectedIsUp'
    BY <1>0, <1>10
       DEF Udp, CloseTcpSocket, locals, Cached, Parts, ConnectedIsUp, Connected
  <2> QED
    BY <2>1, <2>2
<1>11. CASE Uart \/ AutoF \/ Tcp \/ Stdin \/ ScanBlank
  BY <1>0, <1>11
     DEF Uart, AutoF, Tcp, Stdin, ScanBlank, statics, locals,
         DescriptorsOwned, Running, Cached, Parts, ConnectedIsUp, Connected
<1>12. CASE UartGone \/ TcpGone \/ NotReady
  BY <1>0, <1>12
     DEF UartGone, TcpGone, NotReady, Skip, statics, locals, DescriptorsOwned,
         Running, Cached, Same, Parts, ConnectedIsUp, Connected, PsuTypeOK
<1>13. CASE signal_func
  BY <1>0, <1>13
     DEF signal_func, DescriptorsOwned, Running, Cached, Parts, ConnectedIsUp,
         Connected
<1>14. CASE Environment
  BY <1>0, <1>14
     DEF Environment, Accept, Refused, Hangup, Inputs, ServerSends,
         DatagramArrives, LineTyped, ByteLost, Unplugged, Surroundings,
         statics, locals, queues, DescriptorsOwned, Running, Cached,
         ConnectedIsUp, Connected
<1>15. CASE Over \/ UNCHANGED vars
  BY <1>0, <1>15
     DEF Over, vars, statics, locals, DescriptorsOwned, Running, Cached,
         ConnectedIsUp, Connected
<1> QED
  BY <1>2, <1>3, <1>4, <1>5, <1>6, <1>7, <1>8, <1>9, <1>10, <1>11, <1>12,
     <1>13, <1>14, <1>15 DEF Next, Process

-----------------------------------------------------------------------------
(* Commands and connections *)

(* SameConnection is made inductive by what a reply presupposes: that the   *)
(* command is still in progress, and its connection still there.            *)
OrderInv ==
  /\ AutoFTaken /\ SameConnection
  /\ raderDlen > 0 /\ Connected => ~crossed

(* rader_recv replies, and returns the flag of S, only as it ends a command. *)
LEMMA ReplyEnds ==
  ASSUME NEW data, rader_recv(data), raderDlen \in Nat
  PROVE  /\ ret' = DATA_FLAG_S => raderDlen' = 0
         /\ tcpTx' # << >> => raderDlen > 0 /\ raderDlen' = 0
         /\ raderDlen' > 0 => raderDlen > 0
BY DEF rader_recv, Finish, Idle, DATA_FLAG_S

(* The calls that may start a command reply nothing. *)
LEMMA CallsAreSilent ==
  /\ \A buf : rader_cmd(buf) =>
       tcpTx' = << >> /\ (~Idle => UNCHANGED raderDlen)
  /\ \A token : rader_cmd_from_stdin(token) =>
       tcpTx' = << >> /\ (~Idle => raderDlen' \in {0, raderDlen})
BY DEF rader_cmd, rader_cmd_from_stdin, Takes, Refuse, Idle

(* A command that starts is credited to the connection there is. *)
LEMMA CreditKeeps ==
  ASSUME OrderInv, NEW sender, Credit(sender) \/ UNCHANGED history,
         UNCHANGED <<tcp_fd, tcp_connected>>,
         raderDlen \in Nat, raderDlen' \in Nat,
         (Credit(sender) /\ Idle) \/ raderDlen' \in {0, raderDlen}
  PROVE  raderDlen' > 0 /\ Connected' => ~crossed'
<1>1. Connected' <=> Connected
  BY DEF Connected
<1>2. CASE Credit(sender) /\ Idle /\ raderDlen' > 0
  <2>1. crossed' = ~Connected
    BY <1>2 DEF Credit
  <2> QED
    BY <1>1, <2>1, Zenon
<1>3. CASE ~(Credit(sender) /\ Idle /\ raderDlen' > 0)
  <2>1. UNCHANGED history
    BY <1>3 DEF Credit
  <2>2. crossed' = crossed
    BY <2>1 DEF history
  <2>3. raderDlen' > 0 => raderDlen > 0
    BY <1>3 DEF Credit, Idle
  <2> QED
    BY <1>1, <2>2, <2>3 DEF OrderInv
<1> QED
  BY <1>2, <1>3

(* Every step preserves OrderInv. *)
LEMMA OrderStep ==
  ASSUME KernInv, OrderInv, [Next]_vars
  PROVE  OrderInv'
<1>0. /\ PsuTypeOK /\ PsuTypeOK' /\ Cached
      /\ OrderInv /\ AutoFTaken /\ SameConnection
      /\ raderDlen > 0 /\ Connected => ~crossed
      /\ raderDlen \in Nat /\ raderDlen' \in Nat
  BY TypeStep DEF KernInv, TypeInv, OrderInv, PsuTypeOK, RaderTypeOK
<1>1. CASE OpenUart \/ StartUdp
  BY <1>0, <1>1
     DEF OpenUart, StartUdp, raderVars, queues, history, OrderInv, AutoFTaken,
         SameConnection, Idle, Connected
<1>2. CASE StartTcp
  BY <1>0, <1>2
     DEF StartTcp, NotConnected, raderVars, history, OrderInv, AutoFTaken,
         SameConnection, Idle, Connected
<1>3. CASE Select \/ SelectTimeout
  BY <1>0, <1>3
     DEF Select, SelectTimeout, Quiet, statics, locals, history, OrderInv,
         AutoFTaken, SameConnection, Idle, Connected
<1>4. CASE SelectError
  BY <1>0, <1>4
     DEF SelectError, Quiet, locals, OrderInv, AutoFTaken, SameConnection,
         Idle, Connected
<1>5. CASE TcpConnected
  BY <1>0, <1>5
     DEF TcpConnected, set_raderDlen, locals, history, OrderInv, AutoFTaken,
         SameConnection, Idle, Connected
<1>6. CASE TcpFailed
  BY <1>0, <1>6
     DEF TcpFailed, raderVars, locals, history, OrderInv, AutoFTaken,
         SameConnection, Idle, Connected
<1>7. CASE Uart
  <2>1. PICK data : IF tcpFd > 0 /\ tcp_connected # 0 THEN rader_recv(data)
                                                      ELSE Quiet
    BY <1>7 DEF Uart
  <2>2. UNCHANGED <<tcp_fd, tcp_connected, uartFd, crossed>>
        /\ pc = "Uart" /\ uartFd \in rfds
        /\ (pc' = "AutoF" => ret' = DATA_FLAG_S)
    BY <1>7 DEF Uart, statics, locals, history
  <2>3. uartFd > 0
    BY <1>0, <2>2, PsuAssumption DEF Cached, Same, Parts, PsuTypeOK
  <2>4. CASE tcpFd > 0 /\ tcp_connected # 0
    <3>1. /\ ret' = DATA_FLAG_S => raderDlen' = 0
          /\ tcpTx' # << >> => raderDlen > 0 /\ raderDlen' = 0
          /\ raderDlen' > 0 => raderDlen > 0
      BY <1>0, <2>1, <2>4, ReplyEnds
    <3>2. Connected
      BY <1>0, <2>2, <2>4 DEF Connected, Cached, PsuTypeOK
    <3> QED
      BY <1>0, <2>2, <2>3, <3>1, <3>2
         DEF OrderInv, AutoFTaken, SameConnection, Idle, Connected
  <2>5. CASE ~(tcpFd > 0 /\ tcp_connected # 0)
    <3>1. ret' = 0 /\ tcpTx' = << >> /\ raderDlen' = raderDlen
      BY <2>1, <2>5 DEF Quiet
    <3>2. pc' # "AutoF"
      BY <2>2, <3>1 DEF DATA_FLAG_S
    <3> QED
      BY <1>0, <2>2, <3>1, <3>2
         DEF OrderInv, AutoFTaken, SameConnection, Connected
  <2> QED
    BY <2>4, <2>5
<1>8. CASE AutoF \/ Stdin
  <2>1. tcpTx' = << >> /\ (~Idle => raderDlen' \in {0, raderDlen})
    BY <1>8, CallsAreSilent DEF AutoF, Stdin
  <2>2. PICK sender : Credit(sender)
    BY <1>8 DEF AutoF, Stdin
  <2>3. UNCHANGED <<tcp_fd, tcp_connected>> /\ pc' # "AutoF"
    BY <1>8 DEF AutoF, Stdin, statics
  <2>4. raderDlen' > 0 /\ Connected' => ~crossed'
    BY <1>0, <2>1, <2>2, <2>3, CreditKeeps
  <2> QED
    BY <2>1, <2>3, <2>4 DEF OrderInv, AutoFTaken, SameConnection
<1>9. CASE Tcp
  <2>1. /\ tcpTx' = << >> /\ (~Idle => UNCHANGED raderDlen)
        /\ Credit("tcp") \/ UNCHANGED <<history, raderDlen>>
    BY <1>9, CallsAreSilent DEF Tcp, Quiet
  <2>2. UNCHANGED <<tcp_fd, tcp_connected>> /\ pc' # "AutoF"
    BY <1>9 DEF Tcp, statics
  <2>3. raderDlen' > 0 /\ Connected' => ~crossed'
    BY <1>0, <2>1, <2>2, CreditKeeps
  <2> QED
    BY <2>1, <2>2, <2>3 DEF OrderInv, AutoFTaken, SameConnection
<1>10. CASE Udp
  <2>1. tcpTx' = << >> /\ (~Idle => UNCHANGED raderDlen)
    BY <1>10, CallsAreSilent DEF Udp
  <2>2. pc' # "AutoF" /\ UNCHANGED tcp_connected
    BY <1>10 DEF Udp
  <2>3. CASE ret' = 1
    <3>1. ~(tcp_fd' > 0)
      BY <1>0, <1>10, <2>3 DEF Udp, CloseTcpSocket, PsuTypeOK
    <3> QED
      BY <2>1, <2>2, <3>1
         DEF OrderInv, AutoFTaken, SameConnection, Connected
  <2>4. CASE ret' # 1
    <3>1. Credit("udp") /\ UNCHANGED tcp_fd
      BY <1>10, <2>4 DEF Udp
    <3>2. raderDlen' > 0 /\ Connected' => ~crossed'
      BY <1>0, <2>1, <2>2, <3>1, CreditKeeps
    <3> QED
      BY <2>1, <2>2, <3>2 DEF OrderInv, AutoFTaken, SameConnection
  <2> QED
    BY <2>3, <2>4
<1>11. CASE UartGone \/ TcpGone \/ ScanBlank \/ NotReady
  BY <1>0, <1>11
     DEF UartGone, TcpGone, ScanBlank, NotReady, Skip, raderVars, statics,
         locals, history, OrderInv, AutoFTaken, SameConnection, Idle, Connected
<1>12. CASE signal_func
  BY <1>0, <1>12
     DEF signal_func, raderVars, history, OrderInv, AutoFTaken,
         SameConnection, Connected
<1>13. CASE Environment
  <2>1. Surroundings
    BY <1>13
       DEF Environment, Accept, Refused, Hangup, Inputs, ServerSends,
           DatagramArrives, LineTyped, ByteLost, Unplugged
  <2> QED
    BY <1>0, <2>1
       DEF Surroundings, raderVars, statics, locals, history, OrderInv,
           AutoFTaken, SameConnection, Idle, Connected
<1>14. CASE Over \/ UNCHANGED vars
  BY <1>0, <1>14
     DEF Over, vars, raderVars, statics, locals, history, OrderInv,
         AutoFTaken, SameConnection, Idle, Connected
<1> QED
  BY <1>1, <1>2, <1>3, <1>4, <1>5, <1>6, <1>7, <1>8, <1>9, <1>10, <1>11,
     <1>12, <1>13, <1>14 DEF Next, Process

-----------------------------------------------------------------------------
(* The theorems *)

PsuInv == KernInv /\ OrderInv

(* The service starts with nothing open and nothing in progress. *)
LEMMA InitPsu == Init => PsuInv
<1> SUFFICES ASSUME Init PROVE PsuInv
  OBVIOUS
<1>1. RaderInv
  BY InitInv DEF Init
<1>2. Fds \subseteq Nat /\ {0, 1, 2} \cap Fds = {} /\ Server \in Peers
  BY PsuAssumption
<1>3. TypeInv
  BY <1>1, <1>2
     DEF Init, TypeInv, SerialInv, PsuTypeOK, RaderInv, Parts, Status
<1>4. DescriptorsOwned /\ Cached /\ ConnectedIsUp
  BY <1>2 DEF Init, DescriptorsOwned, Cached, ConnectedIsUp, Connected
<1>5. OrderInv
  BY DEF Init, RaderInit, OrderInv, AutoFTaken, SameConnection, Connected
<1> QED
  BY <1>3, <1>4, <1>5 DEF PsuInv, KernInv

(* The inductive invariant of the service. *)
THEOREM PsuInvariance == Spec => []PsuInv
<1>1. PsuInv /\ [Next]_vars => PsuInv'
  BY TypeStep, KernStep, OrderStep DEF PsuInv, KernInv
<1> QED
  BY <1>1, InitPsu, PTL DEF Spec

(* All of the service's state keeps its types, whatever fails.              *)
THEOREM ServiceTypes == Spec => []PsuTypeOK
<1>1. PsuInv => PsuTypeOK
  BY DEF PsuInv, KernInv, TypeInv
<1> QED
  BY <1>1, PsuInvariance, PTL

(* No descriptor is leaked, shared or closed twice, whatever system call    *)
(* fails and however many descriptor numbers there are.                     *)
THEOREM NothingLeaks == Spec => []DescriptorsOwned
<1>1. PsuInv => DescriptorsOwned
  BY DEF PsuInv, KernInv
<1> QED
  BY <1>1, PsuInvariance, PTL

(* A handler never works with a descriptor another handler has closed.      *)
THEOREM NothingUsedAfterClose == Spec => []UsesOpenDescriptors
<1>1. PsuInv => UsesOpenDescriptors
  <2> SUFFICES ASSUME PsuInv PROVE UsesOpenDescriptors
    OBVIOUS
  <2>1. PsuTypeOK /\ DescriptorsOwned /\ Cached
    BY DEF PsuInv, KernInv, TypeInv
  <2>2. Fds \subseteq Nat /\ {0, 1, 2} \cap Fds = {}
    BY PsuAssumption
  <2>3. ASSUME pc \in {"Uart", "AutoF", "Tcp", "Udp", "Stdin"}, uartFd > 0
        PROVE  kern[uartFd] = "uart"
    <3>1. Same(uartFd, uart_fd) /\ Running
      BY <2>1, <2>3 DEF Cached, Parts, Running
    <3>2. uartFd = uart_fd /\ uartFd \in Fds
      BY <2>1, <2>2, <2>3, <3>1 DEF Same, PsuTypeOK
    <3> QED
      BY <2>1, <3>1, <3>2 DEF DescriptorsOwned
  <2>4. ASSUME pc = "Uart", tcpFd > 0, tcp_connected # 0
        PROVE  kern[tcpFd] = "tcp"
    <3>1. tcpFd = tcp_fd /\ Running
      BY <2>1, <2>4 DEF Cached, Running
    <3>2. tcpFd \in Fds
      BY <2>1, <2>4 DEF PsuTypeOK
    <3> QED
      BY <2>1, <3>1, <3>2 DEF DescriptorsOwned
  <2>5. ASSUME pc = "Tcp", tcpFd \in rfds
        PROVE  kern[tcpFd] = "tcp"
    <3>1. tcpFd = tcp_fd /\ tcpFd # 0 /\ Running
      BY <2>1, <2>5 DEF Cached, Running
    <3>2. tcpFd \in Fds
      BY <2>1, <2>5, <3>1 DEF PsuTypeOK
    <3> QED
      BY <2>1, <3>1, <3>2 DEF DescriptorsOwned
  <2>6. ASSUME pc = "Udp", udpFd \in rfds
        PROVE  kern[udpFd] = "udp"
    <3>1. Same(udpFd, udp_fd) /\ Running
      BY <2>1, <2>6 DEF Cached, Running
    <3>2. udpFd = udp_fd /\ udpFd \in Fds
      BY <2>1, <2>2, <2>6, <3>1 DEF Same, PsuTypeOK
    <3> QED
      BY <2>1, <3>1, <3>2 DEF DescriptorsOwned
  <2> QED
    BY <2>3, <2>4, <2>5, <2>6 DEF UsesOpenDescriptors
<1> QED
  BY <1>1, PsuInvariance, PTL

(* A socket that is still connecting never passes for a connection.         *)
THEOREM NoFalseConnection == Spec => []ConnectedIsUp
<1>1. PsuInv => ConnectedIsUp
  BY DEF PsuInv, KernInv
<1> QED
  BY <1>1, PsuInvariance, PTL

(* The command the service sends by itself after S is never refused.        *)
THEOREM AutoFIsTaken == Spec => []AutoFTaken
<1>1. PsuInv => AutoFTaken
  BY DEF PsuInv, OrderInv
<1> QED
  BY <1>1, PsuInvariance, PTL

(* No reply goes out on a later connection than its command came with.      *)
THEOREM RepliesStay == Spec => []SameConnection
<1>1. PsuInv => SameConnection
  BY DEF PsuInv, OrderInv
<1> QED
  BY <1>1, PsuInvariance, PTL

(* The theorems of RaderProofs hold inside the service too: no interleaving *)
(* of its handlers breaks the assembly of an answer.                        *)
THEOREM AssemblyInService == Spec => [](AnswerInProgress /\ NothingCutOff)
<1>1. PsuInv => AnswerInProgress /\ NothingCutOff
  BY ReadFits
     DEF PsuInv, KernInv, TypeInv, SerialInv, RaderInv, NothingCutOff
<1> QED
  BY <1>1, PsuInvariance, PTL

-----------------------------------------------------------------------------
Marked(s, flag) == \A i \in 1 .. Len(s) : s[i] = flag

(* From the command on, whatever lies on the line and in the ring is its.   *)
OwnLine ==
  raderDlen > 0 /\ fresh =>
    Marked(uartIn, rdaerCmdFlag) /\ Marked(Contents(fifo), rdaerCmdFlag)

OwnInv == OwnLine /\ OwnAnswer

-----------------------------------------------------------------------------
(* Marks *)

(* What is appended to a marked sequence must be marked as it is. *)
LEMMA MarkedConcat ==
  ASSUME NEW s \in Seq(Byte), NEW t \in Seq(Byte), NEW flag,
         Marked(s, flag), Marked(t, flag)
  PROVE  Marked(s \o t, flag)
<1>1. /\ Len(s \o t) = Len(s) + Len(t)
      /\ \A i \in 1 .. Len(s) + Len(t) :
           (s \o t)[i] = IF i <= Len(s) THEN s[i] ELSE t[i - Len(s)]
  BY ConcatProperties
<1>2. ASSUME NEW i \in 1 .. Len(s) + Len(t)
      PROVE  (s \o t)[i] = flag
  <2>1. CASE i <= Len(s)
    BY <1>1, <2>1 DEF Marked
  <2>2. CASE ~(i <= Len(s))
    <3>1. i - Len(s) \in 1 .. Len(t)
      BY <2>2
    <3> QED
      BY <1>1, <2>2, <3>1 DEF Marked
  <2> QED
    BY <2>1, <2>2
<1> QED
  BY <1>1, <1>2 DEF Marked

(* A read of the line, and what it leaves, are marked as the line was. *)
LEMMA MarkedRead ==
  ASSUME NEW s \in Seq(Byte), NEW n \in 1 .. min(MaxRead, Len(s)), NEW flag,
         Marked(s, flag)
  PROVE  Marked(SubSeq(s, 1, n), flag) /\ Marked(SubSeq(s, n + 1, Len(s)), flag)
<1>1. Len(s) \in Nat /\ n \in Nat /\ 1 <= n /\ n <= Len(s)
  BY RaderAssumption DEF min
<1>2. \A i \in 1 .. Len(s) : s[i] \in Byte /\ s[i] = flag
  BY DEF Marked
<1>3. \A i \in 1 .. n : s[i] \in Byte
  BY <1>1, <1>2
<1>4. Marked(SubSeq(s, 1, n), flag)
  <2>1. Len(SubSeq(s, 1, n)) = n /\ \A i \in 1 .. n : SubSeq(s, 1, n)[i] = s[i]
    BY <1>1, <1>3, FirstOnes
  <2> QED
    BY <1>1, <1>2, <2>1 DEF Marked
<1>5. Marked(SubSeq(s, n + 1, Len(s)), flag)
  <2> DEFINE m == n + 1
             len == Len(s)
             rest == SubSeq(s, m, len)
  <2>1. m \in Int /\ len \in Int /\ \A i \in m .. len : s[i] \in Byte
    BY <1>1, <1>2
  <2>2. /\ Len(rest) = IF m <= len THEN len - m + 1 ELSE 0
        /\ \A i \in 1 .. len - m + 1 : rest[i] = s[m + i - 1]
    BY <2>1, SubSeqProperties
  <2> HIDE DEF rest
  <2>3. ASSUME NEW i \in 1 .. Len(rest) PROVE rest[i] = flag
    <3>1. i \in 1 .. len - m + 1 /\ m + i - 1 \in 1 .. len
      BY <1>1, <2>2
    <3> QED
      BY <1>2, <2>2, <3>1
  <2> QED
    BY <2>3 DEF Marked, rest
<1> QED
  BY <1>4, <1>5

(* A lost byte leaves the rest of the line marked as it was. *)
LEMMA MarkedTail ==
  ASSUME NEW s \in Seq(Byte), s # << >>, NEW flag, Marked(s, flag)
  PROVE  Marked(Tail(s), flag)
<1>1. /\ Len(Tail(s)) = Len(s) - 1
      /\ \A i \in 1 .. Len(Tail(s)) : Tail(s)[i] = s[i + 1]
  BY HeadTailProperties
<1> QED
  BY <1>1 DEF Marked

(* The radar marks its answer with the command it answers. *)
LEMMA AnswerMarked == ASSUME NEW cmd PROVE Marked(Answer(cmd), rader_flag(cmd))
<1>1. rader_dlen(rader_flag(cmd)) \in Nat
  BY FlagType, FlagLengths DEF rader_dlen
<1> QED
  BY <1>1 DEF Marked, Answer

-----------------------------------------------------------------------------
(* The steps *)

(* A step that neither starts, feeds nor answers a command, although it may *)
(* take something from the line.                                            *)
LEMMA StillOwn ==
  ASSUME SerialInv, OwnInv, UNCHANGED <<fifo, rdaerCmdFlag, raderDlen>>,
         UNCHANGED fresh \/ Idle,
         \/ uartIn' = << >> \/ UNCHANGED uartIn
         \/ uartIn # << >> /\ uartIn' = Tail(uartIn)
         \/ \E n \in 1 .. min(MaxRead, Len(uartIn)) :
              uartIn' = SubSeq(uartIn, n + 1, Len(uartIn)),
         tcpTx' = << >> \/ UNCHANGED <<tcpTx, fresh>>
  PROVE  OwnInv'
<1>1. Contents(fifo)' = Contents(fifo)
  BY DEF Contents, ringbuffer_out_peek, ringbuffer_len, ringbuffer_copy_out,
         ReadAt
<1>2. OwnLine'
  <2> SUFFICES ASSUME raderDlen' > 0, fresh'
               PROVE  /\ Marked(uartIn', rdaerCmdFlag')
                      /\ Marked(Contents(fifo)', rdaerCmdFlag')
    BY DEF OwnLine, Marked
  <2>1. raderDlen > 0 /\ ~Idle /\ UNCHANGED rdaerCmdFlag
    <3>1. raderDlen > 0 /\ UNCHANGED rdaerCmdFlag
      OBVIOUS
    <3> QED
      BY <3>1 DEF Idle
  <2>2. fresh
    BY <2>1, Zenon
  <2>3. Marked(uartIn, rdaerCmdFlag) /\ Marked(Contents(fifo), rdaerCmdFlag)
    BY <2>1, <2>2 DEF OwnInv, OwnLine
  <2>4. uartIn \in Seq(Byte)
    BY DEF SerialInv
  <2>5. Marked(uartIn', rdaerCmdFlag)
    <3>1. CASE uartIn' = << >> \/ UNCHANGED uartIn
      BY <2>3, <3>1 DEF Marked
    <3>2. CASE uartIn # << >> /\ uartIn' = Tail(uartIn)
      BY <2>3, <2>4, <3>2, MarkedTail
    <3>3. CASE \E n \in 1 .. min(MaxRead, Len(uartIn)) :
                 uartIn' = SubSeq(uartIn, n + 1, Len(uartIn))
      BY <2>3, <2>4, <3>3, MarkedRead
    <3> QED
      BY <3>1, <3>2, <3>3
  <2> QED
    BY <1>1, <2>1, <2>3, <2>5 DEF Marked
<1>3. OwnAnswer'
  BY DEF OwnInv, OwnAnswer
<1> QED
  BY <1>2, <1>3 DEF OwnInv

(* Bytes of an answer are stored with those before them; the reply is made  *)
(* of what is stored then.                                                  *)
LEMMA ReadOwn ==
  ASSUME SerialInv, OwnInv, UNCHANGED fresh,
         NEW n \in 1 .. min(MaxRead, Len(uartIn)),
         uartIn' = SubSeq(uartIn, n + 1, Len(uartIn)),
         rader_recv(SubSeq(uartIn, 1, n))
  PROVE  OwnInv'
<1> DEFINE data == SubSeq(uartIn, 1, n)
           all == Contents(fifo) \o data
           answer == SubSeq(all, 1, raderDlen)
<1>1. RaderInv /\ uartIn \in Seq(Byte)
  BY DEF SerialInv
<1>2. data \in Seq(Byte) /\ Len(data) \in 1 .. MaxRead
  BY <1>1, ReadType
<1>3. CASE Idle
  BY <1>3 DEF rader_recv, OwnInv, OwnLine, OwnAnswer, Idle
<1>4. CASE raderDlen > 0
  <2>1. /\ Contents(fifo) \in Seq(Byte) /\ all \in Seq(Byte)
        /\ \/ /\ Len(all) < raderDlen /\ tcpTx' = << >>
              /\ Contents(fifo') = all
              /\ UNCHANGED <<rdaerCmdFlag, raderDlen>>
           \/ /\ Len(all) >= raderDlen /\ raderDlen' = 0
              /\ answer \in Seq(Byte) /\ Len(answer) = raderDlen
              /\ \A k \in 1 .. raderDlen : answer[k] = all[k]
              /\ tcpTx' = Packet(rdaerCmdFlag, answer)
    BY <1>1, <1>2, <1>4, RecvStores
  <2>2. ASSUME fresh
        PROVE  /\ Marked(all, rdaerCmdFlag)
               /\ Marked(uartIn', rdaerCmdFlag)
    <3>1. Marked(uartIn, rdaerCmdFlag) /\ Marked(Contents(fifo), rdaerCmdFlag)
      BY <1>4, <2>2 DEF OwnInv, OwnLine
    <3>2. Marked(data, rdaerCmdFlag) /\ Marked(uartIn', rdaerCmdFlag)
      BY <1>1, <3>1, MarkedRead
    <3> QED
      BY <1>2, <2>1, <3>1, <3>2, MarkedConcat
  <2> HIDE DEF all, answer
  <2>3. CASE tcpTx' = << >> /\ Contents(fifo') = all /\ UNCHANGED rdaerCmdFlag
    <3>1. Contents(fifo)' = all
      BY <2>3 DEF Contents, ringbuffer_out_peek, ringbuffer_len,
                  ringbuffer_copy_out, ReadAt
    <3>2. OwnLine'
      BY <2>2, <2>3, <3>1 DEF OwnLine, Marked
    <3> QED
      BY <2>3, <3>2 DEF OwnInv, OwnAnswer
  <2>4. CASE /\ Len(all) >= raderDlen /\ raderDlen' = 0
             /\ answer \in Seq(Byte) /\ Len(answer) = raderDlen
             /\ \A k \in 1 .. raderDlen : answer[k] = all[k]
             /\ tcpTx' = Packet(rdaerCmdFlag, answer)
    <3>1. raderDlen \in Nat /\ raderDlen < 65536
      BY <1>1, <1>4, FlagLengths DEF RaderInv, RaderTypeOK, AnswerInProgress
    <3>2. /\ ERUP_GET_LEN(tcpTx') = raderDlen
          /\ ERUP_GET_FLAG(tcpTx') = rdaerCmdFlag
          /\ ERUP_GET_DATA(tcpTx') = answer
      BY <2>4, <3>1, Decodable
    <3>3. ASSUME fresh, NEW i \in 1 .. raderDlen PROVE answer[i] = rdaerCmdFlag
      BY <2>1, <2>2, <2>4, <3>1, <3>3 DEF Marked
    <3>4. OwnAnswer'
      BY <3>2, <3>3 DEF OwnAnswer
    <3> QED
      BY <2>4, <3>4 DEF OwnInv, OwnLine
  <2> QED
    BY <2>1, <2>3, <2>4
<1> QED
  BY <1>1, <1>3, <1>4 DEF RaderInv, RaderTypeOK, Idle

(* A call that may forward a command: if it does and the line is silent, it *)
(* is the command's from then on; if it does not, all stays as it was.      *)
LEMMA ForwardOwn ==
  ASSUME SerialInv, OwnInv, ToRadar, tcpTx' = << >>,
         \/ raderDlen' = 0
         \/ Refuse /\ UNCHANGED fresh
         \/ \E data : Idle /\ Begin(data) /\ fresh' = (uartIn = << >>)
  PROVE  OwnInv'
<1>1. RaderInv /\ uartIn \in Seq(Byte) /\ fifo \in Rings
  BY DEF SerialInv, RaderInv, Sound
<1>2. CASE raderDlen' = 0
  BY <1>2 DEF OwnInv, OwnLine, OwnAnswer
<1>3. CASE Refuse /\ UNCHANGED fresh
  <2>1. uartTx' = << >>
    BY <1>3 DEF Refuse
  <2>2. Answer(uartTx') = << >>
    BY <2>1, FlagLengths DEF Answer, rader_flag, rader_dlen
  <2>3. uartIn \o Answer(uartTx') = uartIn
    BY <1>1, <2>2, ConcatEmptySeq
  <2>4. UNCHANGED uartIn
    BY <2>3 DEF ToRadar
  <2> QED
    BY <1>3, <2>4, StillOwn DEF Refuse
<1>4. CASE \E data : Idle /\ Begin(data) /\ fresh' = (uartIn = << >>)
  <2> PICK data : Idle /\ Begin(data) /\ fresh' = (uartIn = << >>)
    BY <1>4
  <2>1. /\ fifo' = ringbuffer_reset(fifo) /\ uartTx' = data
        /\ rdaerCmdFlag' = rader_flag(data)
    BY DEF Begin
  <2>2. Contents(fifo') = << >>
    BY <1>1, <2>1, ResetEmpty
  <2>3. Contents(fifo)' = << >>
    BY <2>2 DEF Contents, ringbuffer_out_peek, ringbuffer_len,
                ringbuffer_copy_out, ReadAt
  <2>4. ASSUME fresh' PROVE Marked(uartIn', rdaerCmdFlag')
    <3>1. uartIn = << >>
      BY <2>4
    <3>2. Answer(data) \in Seq(Byte) /\ Marked(Answer(data), rader_flag(data))
      BY AnswerType, AnswerMarked
    <3>3. << >> \o Answer(data) = Answer(data)
      BY <3>2, ConcatEmptySeq
    <3>4. uartIn' \in {<< >>, Answer(data)}
      BY <2>1, <3>1, <3>3 DEF ToRadar
    <3> QED
      BY <2>1, <3>2, <3>4 DEF Marked
  <2>5. OwnLine'
    BY <2>3, <2>4 DEF OwnLine, Marked
  <2> QED
    BY <2>5 DEF OwnInv, OwnAnswer
<1> QED
  BY <1>2, <1>3, <1>4

(* Whoever sends it, a command that is credited to its sender is forwarded  *)
(* as ForwardOwn says.                                                      *)
LEMMA CreditOwn ==
  ASSUME SerialInv, OwnInv, ToRadar, NEW sender, Credit(sender),
         \/ \E buf : rader_cmd(buf)
         \/ \E token : rader_cmd_from_stdin(token)
  PROVE  OwnInv'
<1>1. tcpTx' = << >>
  BY DEF rader_cmd, rader_cmd_from_stdin
<1>2. raderDlen' = 0 \/ Refuse \/ \E data : Idle /\ Begin(data)
  BY DEF rader_cmd, rader_cmd_from_stdin, Takes
<1>3. CASE raderDlen' = 0
  BY <1>1, <1>3, ForwardOwn
<1>4. CASE Refuse /\ raderDlen' # 0
  <2>1. ~Idle
    BY <1>4 DEF Refuse, Idle
  <2>2. UNCHANGED fresh
    BY <2>1 DEF Credit, history
  <2> QED
    BY <1>1, <1>4, <2>2, ForwardOwn
<1>5. CASE (\E data : Idle /\ Begin(data)) /\ raderDlen' # 0
  <2> PICK data : Idle /\ Begin(data)
    BY <1>5
  <2>1. raderDlen' \in Nat
    BY BeginInv DEF SerialInv
  <2>2. raderDlen' > 0
    BY <1>5, <2>1
  <2>3. fresh' = (uartIn = << >>)
    BY <2>2 DEF Credit
  <2> QED
    BY <1>1, <2>3, ForwardOwn
<1> QED
  BY <1>2, <1>3, <1>4, <1>5

(* "close socket!" is not credited: no answer belongs to it. *)
LEMMA CloseOwn ==
  ASSUME SerialInv, OwnInv, ToRadar, UNCHANGED fresh,
         NEW buf, rader_cmd(buf), ret' = 1
  PROVE  OwnInv'
<1>1. tcpTx' = << >> /\ Closes(buf)
  BY DEF rader_cmd
<1>2. CASE Takes(buf)
  <2> DEFINE data == ERUP_GET_DATA(FromBegin(buf))
  <2>1. data \in CloseSocket /\ Begin(data)
    BY <1>1, <1>2 DEF Closes, rader_cmd
  <2>2. raderDlen' = 0
    <3>1. rader_flag(data) = 0
      BY <2>1, PsuAssumption DEF rader_flag
    <3> QED
      BY <2>1, <3>1, FlagLengths DEF Begin, rader_dlen
  <2> QED
    BY <1>1, <2>2, ForwardOwn
<1>3. CASE ~Takes(buf)
  BY <1>1, <1>3, ForwardOwn DEF rader_cmd
<1> QED
  BY <1>2, <1>3

(* Every step of the service and its surroundings preserves OwnInv. *)
LEMMA OwnStep ==
  ASSUME SerialInv, OwnInv, [Next]_vars
  PROVE  OwnInv'
<1>1. CASE Uart
  <2> PICK n \in 1 .. min(MaxRead, Len(uartIn)) :
        /\ uartIn' = SubSeq(uartIn, n + 1, Len(uartIn))
        /\ IF tcpFd > 0 /\ tcp_connected # 0
             THEN rader_recv(SubSeq(uartIn, 1, n))
             ELSE Quiet
    BY <1>1 DEF Uart
  <2>1. UNCHANGED fresh
    BY <1>1 DEF Uart, history
  <2>2. CASE rader_recv(SubSeq(uartIn, 1, n))
    BY <2>1, <2>2, ReadOwn
  <2>3. CASE Quiet
    BY <2>1, <2>3, StillOwn DEF Quiet
  <2> QED
    BY <2>2, <2>3
<1>2. CASE AutoF \/ Stdin
  BY <1>2, CreditOwn DEF AutoF, Stdin
<1>3. CASE Tcp
  <2>1. \/ rader_cmd(Head(tcpIn)) /\ ToRadar /\ Credit("tcp")
        \/ Quiet /\ UNCHANGED <<uartIn, fresh>>
    BY <1>3 DEF Tcp, history
  <2> QED
    BY <2>1, CreditOwn, StillOwn DEF Quiet
<1>4. CASE Udp
  <2>1. /\ rader_cmd(Head(udpIn).buf) /\ ToRadar
        /\ IF ret' = 1 THEN UNCHANGED fresh ELSE Credit("udp")
    BY <1>4 DEF Udp
  <2> QED
    BY <2>1, CreditOwn, CloseOwn
<1>5. CASE TcpConnected
  BY <1>5 DEF TcpConnected, set_raderDlen, OwnInv, OwnLine, OwnAnswer
<1>6. CASE Select
  BY <1>6, StillOwn DEF Select, Quiet, queues, history
<1>7. CASE ByteLost
  <2>1. UNCHANGED <<fifo, rdaerCmdFlag, raderDlen, tcpTx, fresh>>
    BY <1>7 DEF ByteLost, Surroundings, raderVars, history
  <2> QED
    BY <1>7, <2>1, StillOwn DEF ByteLost
<1>8. CASE /\ Quiet \/ UNCHANGED raderVars
           /\ uartIn' = << >> \/ UNCHANGED uartIn
           /\ UNCHANGED fresh
  BY <1>8, StillOwn DEF Quiet, raderVars
<1>9. CASE Process
  BY <1>1, <1>2, <1>3, <1>4, <1>5, <1>6, <1>8, <1>9
     DEF Process, OpenUart, StartTcp, StartUdp, SelectTimeout, SelectError,
         TcpFailed, UartGone, TcpGone, ScanBlank, NotReady, Skip, queues,
         history
<1>10. CASE signal_func \/ Over \/ UNCHANGED vars
  BY <1>8, <1>10 DEF signal_func, Over, vars, queues, history
<1>11. CASE Environment
  BY <1>7, <1>8, <1>11
     DEF Environment, Accept, Refused, Hangup, Inputs, ServerSends,
         DatagramArrives, LineTyped, Unplugged, Surroundings, queues, history
<1> QED
  BY <1>9, <1>10, <1>11 DEF Next

-----------------------------------------------------------------------------
(* The theorem *)

(* If the serial line was silent when a command was forwarded, its reply    *)
(* holds bytes of its own answer only, whoever else sends, and whatever is  *)
(* lost, cancelled or reconnected before.                                   *)
THEOREM RepliesAreOwn == Spec => []OwnAnswer
<1>1. Init => OwnInv
  BY DEF Init, RaderInit, OwnInv, OwnLine, OwnAnswer
<1>2. PsuInv => SerialInv
  BY DEF PsuInv, KernInv, TypeInv
<1>3. SerialInv /\ OwnInv /\ [Next]_vars => OwnInv'
  BY OwnStep
<1>4. OwnInv => OwnAnswer
  BY DEF OwnInv
<1> QED
  BY <1>1, <1>2, <1>3, <1>4, PsuInvariance, PTL DEF Spec

-----------------------------------------------------------------------------
(* The service as an assembler of answers *)

(* The reads of the service are those the assembler may hear. *)
AnyRead == \A s \in Seq(Byte) : Len(s) \in 1 .. MaxRead => s \in UartReads

(* Every step of the service and its surroundings is one of                 *)
(* ResponseAssembler, or none.                                              *)
LEMMA ServiceMaps ==
  ASSUME AnyRead, SerialInv, [Next]_vars
  PROVE  [RA!Next]_RA!vars
<1>0. RaderInv /\ uartIn \in Seq(Byte)
  BY DEF SerialInv
<1>1. CASE Quiet
  BY <1>1, QuietMaps DEF Quiet
<1>2. CASE UNCHANGED raderVars
  BY <1>2, StutterMaps
<1>3. CASE Uart
  <2> PICK n \in 1 .. min(MaxRead, Len(uartIn)) :
        rader_recv(SubSeq(uartIn, 1, n)) \/ Quiet
    BY <1>3 DEF Uart
  <2>1. SubSeq(uartIn, 1, n) \in UartReads
    BY <1>0, ReadType DEF AnyRead
  <2> QED
    BY <1>0, <1>1, <2>1, RecvMaps
<1>4. CASE AutoF \/ Stdin
  BY <1>0, <1>4, StdinMaps DEF AutoF, Stdin
<1>5. CASE Tcp \/ Udp
  BY <1>0, <1>1, <1>5, CmdMaps DEF Tcp, Udp
<1>6. CASE TcpConnected
  BY <1>6, CancelMaps DEF TcpConnected, set_raderDlen
<1>7. CASE Process
  BY <1>1, <1>2, <1>3, <1>4, <1>5, <1>6, <1>7
     DEF Process, OpenUart, StartTcp, StartUdp, Select, SelectTimeout,
         SelectError, TcpFailed, UartGone, TcpGone, ScanBlank, NotReady, Skip
<1>8. CASE signal_func \/ Over \/ UNCHANGED vars
  BY <1>2, <1>8 DEF signal_func, Over, vars
<1>9. CASE Environment
  BY <1>2, <1>9
     DEF Environment, Accept, Refused, Hangup, Inputs, ServerSends,
         DatagramArrives, LineTyped, ByteLost, Unplugged, Surroundings
<1> QED
  BY <1>7, <1>8, <1>9 DEF Next

(* The whole service, with four sources of commands, failing calls and      *)
(* connections that come and go, does what ResponseAssembler says: one      *)
(* command at a time, and exactly the bytes read since as its reply.        *)
THEOREM ServiceAssembles ==
  ASSUME AnyRead
  PROVE  Spec => ImplementsAssembler
<1>1. Init => RA!Init
  BY InitMaps DEF Init
<1>2. PsuInv => SerialInv
  BY DEF PsuInv, KernInv, TypeInv
<1>3. SerialInv /\ [Next]_vars => [RA!Next]_RA!vars
  BY ServiceMaps
<1> QED
  BY <1>1, <1>2, <1>3, PsuInvariance, PTL
     DEF Spec, ImplementsAssembler, RA!Spec
=============================================================================
