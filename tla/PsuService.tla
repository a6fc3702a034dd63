----------------------------- MODULE PsuService -----------------------------
(***************************************************************************)
(* The service process of src/psuservice.c and its surroundings: a radar on *)
(* a serial port, the parking server on the TCP connection the process      *)
(* opens, any host on its UDP port, and a console.                          *)
(*                                                                         *)
(* The process runs WaitMessageAndHandle for ever.  Each pass is cut where  *)
(* the surroundings can do something the code later notices, that is before *)
(* each system call on a descriptor; `pc' names the part to run next.       *)
(***************************************************************************)
EXTENDS Rader

CONSTANTS
  Peers,         \* addresses: the configured server and hosts that use UDP
  Server,        \* network.ipaddr of the configuration
  ServerPackets, \* what one read of the TCP socket may return
  Datagrams,     \* what a UDP datagram may hold
  Lines,         \* what may be typed on the console
  MaxQueue,      \* bound: packets waiting in a socket, lines at the console
  MaxLine,       \* bound: bytes waiting on the serial line
  Fds,           \* bound: descriptor numbers the process can get
  Blank,         \* a console line without a token
  Failures       \* what may go wrong, a subset of AllFailures

AllFailures ==
  { "openUart", "openTcp", "connect", "openUdp",  \* a call in Start... fails
    "refuse",      \* the server refuses a connection
    "hangup",      \* the server ends or resets a connection
    "unplug",      \* the serial device disappears
    "lose",        \* a byte of the radar's answer is lost
    "select",      \* select returns -1
    "timeout",     \* network.selectTimeout is not -1 and runs out
    "signal" }     \* SIGINT or SIGQUIT

ASSUME PsuAssumption ==
  /\ Server \in Peers
  /\ MaxQueue \in Nat \ {0} /\ MaxLine \in Nat
  /\ Fds \subseteq Nat \ (0 .. 2)      \* 0 to 2 are open from the start
  /\ Failures \subseteq AllFailures
  /\ DataFlags \subseteq Byte         \* bytes carry the mark of a command
  /\ \A data \in CloseSocket : data # << >> => data[1] \notin Letters   \* a c is none

VARIABLES
  (* struct psus_config and the other statics *)
  uart_fd, tcp_fd, udp_fd, tcp_connected, net_addr,
  (* the address the socket in tcp_fd was last connected to *)
  peer,
  (* locals of WaitMessageAndHandle *)
  pc, uartFd, tcpFd, udpFd, rfds, wfds,
  (* the kernel: what each descriptor is, and what waits to be read *)
  kern, uartSt, tcpSt, uartIn, tcpIn, udpIn, stdinIn,
  (* history of the command in progress, or of the one just answered: who  *)
  (* sent it, whether the serial line held nothing of an earlier answer    *)
  (* when it was forwarded, whether the TCP connection of that moment, if  *)
  (* there was one, has been left since                                    *)
  origin, fresh, crossed

statics == <<uart_fd, tcp_fd, udp_fd, tcp_connected, net_addr, peer>>
locals == <<uartFd, tcpFd, udpFd, rfds, wfds>>
queues == <<uartIn, tcpIn, udpIn, stdinIn>>
history == <<origin, fresh, crossed>>
vars == <<raderVars, statics, pc, locals, kern, uartSt, tcpSt, queues, history>>

Init ==
  /\ RaderInit
  /\ uart_fd = 0 /\ tcp_fd = 0 /\ udp_fd = 0 /\ tcp_connected = 0
  /\ net_addr = Server /\ peer = Server
  /\ pc = "OpenUart"
  /\ uartFd = 0 /\ tcpFd = 0 /\ udpFd = 0 /\ rfds = {} /\ wfds = {}
  /\ kern = [fd \in Fds |-> "free"]
  /\ uartSt = "closed" /\ tcpSt = "closed"
  /\ uartIn = << >> /\ tcpIn = << >> /\ udpIn = << >> /\ stdinIn = << >>
  /\ origin = "none" /\ fresh = TRUE /\ crossed = FALSE

-----------------------------------------------------------------------------
(* The kernel *)

Free == {fd \in Fds : kern[fd] = "free"}
LowestFree == CHOOSE fd \in Free : \A other \in Free : fd <= other

May(failure) == failure \in Failures

(* what select reports of one descriptor *)
Readable(fd) ==
  \/ fd = 0 /\ stdinIn # << >>
  \/ fd \in Fds /\ kern[fd] = "uart" /\ (uartIn # << >> \/ uartSt = "gone")
  \/ fd \in Fds /\ kern[fd] = "tcp" /\ (tcpIn # << >> \/ tcpSt = "gone")
  \/ fd \in Fds /\ kern[fd] = "udp" /\ udpIn # << >>
Writable(fd) ==
  fd \in Fds /\ kern[fd] = "tcp" /\ tcpSt \in {"up", "failed", "gone"}

Connected == tcp_fd > 0 /\ tcp_connected = 1

(* tcp_connected is left alone: StartTcpSocket clears it *)
CloseTcpSocket_Leak ==
  tcp_fd' = 0 /\ tcpSt' = "closed" /\ tcpIn' = << >> /\ UNCHANGED kern
CloseTcpSocket ==
  /\ IF tcp_fd > 0
       THEN /\ tcp_fd' = 0 /\ kern' = [kern EXCEPT ![tcp_fd] = "free"]
            /\ tcpSt' = "closed" /\ tcpIn' = << >>
       ELSE UNCHANGED <<tcp_fd, kern, tcpSt, tcpIn>>

(* what the radar answers to the bytes of a command: as many bytes as the   *)
(* table of rader_dlen says, each marked with the command they belong to    *)
Answer(cmd) == [i \in 1 .. rader_dlen(rader_flag(cmd)) |-> rader_flag(cmd)]

(* write(uartFd,...) of this step reaches the radar, if there is one; the   *)
(* bound MaxLine is a radar that does not answer with so much unread        *)
ToRadar ==
  LET line == uartIn \o Answer(uartTx')
  IN uartIn' = IF /\ uartFd > 0 /\ kern[uartFd] = "uart" /\ uartSt = "open"
                  /\ Len(line) <= MaxLine
                 THEN line ELSE uartIn

(* nothing returned, nothing written *)
Quiet ==
  /\ ret' = 0 /\ uartTx' = << >> /\ tcpTx' = << >>
  /\ UNCHANGED <<fifo, rdaerCmdFlag, raderDlen>>

(* history after a step in which `sender' may have started a command *)
Credit(sender) ==
  IF Idle /\ raderDlen' > 0
    THEN /\ origin' = sender /\ fresh' = (uartIn = << >>)
         /\ crossed' = ~Connected
    ELSE UNCHANGED history

-----------------------------------------------------------------------------
(* Opening, at the head of every pass *)

OpenUart ==
  /\ pc = "OpenUart" /\ pc' = "StartTcp"
  /\ \/ /\ uart_fd > 0
        /\ uartFd' = uart_fd
        /\ UNCHANGED <<uart_fd, kern, uartSt>>
     \/ /\ uart_fd <= 0 /\ Free # {}
        /\ uart_fd' = LowestFree /\ uartFd' = LowestFree
        /\ kern' = [kern EXCEPT ![LowestFree] = "uart"]
        /\ uartSt' = "open"
     \/ /\ uart_fd <= 0 /\ (May("openUart") \/ Free = {})
        /\ uart_fd' \in {0, -1} /\ uartFd' = -1
        /\ UNCHANGED <<kern, uartSt>>
  /\ UNCHANGED <<raderVars, tcp_fd, udp_fd, tcp_connected, net_addr, peer,
                 tcpFd, udpFd, rfds, wfds, tcpSt, queues, history>>

NotConnected_Missing == UNCHANGED tcp_connected
NotConnected == tcp_connected' = 0
Destination_Configured == Server
Destination == net_addr

(* socket, SetNonblocking and connect; the result of a connection attempt   *)
(* that is under way shows later, as writability                            *)
StartTcp ==
  /\ pc = "StartTcp" /\ pc' = "StartUdp"
  /\ \/ /\ tcp_fd > 0
        /\ tcpFd' = tcp_fd
        /\ UNCHANGED <<tcp_fd, tcp_connected, peer, kern, tcpSt>>
     \/ /\ tcp_fd <= 0 /\ Free # {}
        /\ tcp_fd' = LowestFree /\ tcpFd' = LowestFree
        /\ NotConnected
        /\ kern' = [kern EXCEPT ![LowestFree] = "tcp"]
        /\ tcpSt' = "connecting" /\ peer' = Destination
     \/ /\ tcp_fd <= 0 /\ Free # {} /\ May("connect")
        /\ tcp_fd' = 0 /\ tcpFd' = -2
        /\ NotConnected
        /\ UNCHANGED <<peer, kern, tcpSt>>
     \/ /\ tcp_fd <= 0 /\ (May("openTcp") \/ Free = {})
        /\ tcp_fd' = -1 /\ tcpFd' = -1
        /\ UNCHANGED <<tcp_connected, peer, kern, tcpSt>>
  /\ UNCHANGED <<raderVars, uart_fd, udp_fd, net_addr, uartFd, udpFd, rfds,
                 wfds, uartSt, queues, history>>

StartUdp ==
  /\ pc = "StartUdp"
  /\ \/ /\ udp_fd > 0
        /\ udpFd' = udp_fd
        /\ UNCHANGED <<udp_fd, kern>>
     \/ /\ udp_fd <= 0 /\ Free # {}
        /\ udp_fd' = LowestFree /\ udpFd' = LowestFree
        /\ kern' = [kern EXCEPT ![LowestFree] = "udp"]
     \/ /\ udp_fd <= 0 /\ Free # {} /\ May("openUdp")    \* bind fails
        /\ udp_fd' = 0 /\ udpFd' = -2
        /\ UNCHANGED kern
     \/ /\ udp_fd <= 0 /\ (May("openUdp") \/ Free = {})  \* socket fails
        /\ udp_fd' = -1 /\ udpFd' = -1
        /\ UNCHANGED kern
  /\ pc' = IF uartFd <= 0 /\ udpFd' <= 0 THEN "OpenUart" ELSE "Select"
  /\ UNCHANGED <<raderVars, uart_fd, tcp_fd, tcp_connected, net_addr, peer,
                 uartFd, tcpFd, rfds, wfds, uartSt, tcpSt, queues, history>>

-----------------------------------------------------------------------------
(* select *)

WatchRead_Connecting == {0} \cup {fd \in {udpFd, uartFd, tcpFd} : fd > 0}
WatchRead ==
  {0} \cup {fd \in {udpFd, uartFd} : fd > 0}
      \cup {fd \in {tcpFd} : fd > 0 /\ tcp_connected = 1}
WatchWrite == {fd \in {tcpFd} : fd > 0 /\ tcp_connected = 0}

Select ==
  /\ pc = "Select" /\ pc' = "TcpWritable"
  /\ rfds' = {fd \in WatchRead : Readable(fd)}
  /\ wfds' = {fd \in WatchWrite : Writable(fd)}
  /\ rfds' \cup wfds' # {}
  /\ Quiet
  /\ IF Idle THEN origin' = "none" /\ fresh' = TRUE /\ crossed' = FALSE
             ELSE UNCHANGED history
  /\ UNCHANGED <<statics, uartFd, tcpFd, udpFd, kern, uartSt, tcpSt, queues>>

(* nothing is closed: select has cleared the sets *)
SelectTimeout ==
  /\ pc = "Select" /\ pc' = "OpenUart"
  /\ May("timeout")
  /\ \A fd \in WatchRead : ~Readable(fd)
  /\ \A fd \in WatchWrite : ~Writable(fd)
  /\ Quiet
  /\ UNCHANGED <<statics, locals, kern, uartSt, tcpSt, queues, history>>

(* select has left the sets alone: whatever was watched for reading is      *)
(* closed, a connection still being made (in wfds) is not                   *)
SelectError ==
  LET closed == {fd \in {uartFd, tcpFd, udpFd} : fd \in WatchRead}
  IN /\ pc = "Select" /\ pc' = "OpenUart"
     /\ May("select")
     /\ Quiet
     /\ kern' = [fd \in Fds |-> IF fd \in closed THEN "free" ELSE kern[fd]]
     /\ IF tcpFd \in closed
          THEN /\ tcp_fd' = 0 /\ tcpSt' = "closed" /\ tcpIn' = << >>
               /\ crossed' = TRUE
          ELSE UNCHANGED <<tcp_fd, tcpSt, tcpIn, crossed>>
     /\ IF uartFd \in closed
          THEN uart_fd' = 0 /\ uartSt' = "closed" /\ uartIn' = << >>
          ELSE UNCHANGED <<uart_fd, uartSt, uartIn>>
     /\ IF udpFd \in closed
          THEN udp_fd' = 0 /\ udpIn' = << >>
          ELSE UNCHANGED <<udp_fd, udpIn>>
     /\ UNCHANGED <<tcp_connected, net_addr, peer, locals, stdinIn, origin,
                    fresh>>

-----------------------------------------------------------------------------
(* The handlers, in the order of the code *)

Skip(part, next) ==
  /\ pc = part /\ pc' = next
  /\ UNCHANGED <<raderVars, statics, locals, kern, uartSt, tcpSt, queues,
                 history>>

(* TcpSocketStatus and what follows it; SO_ERROR of a connection the peer   *)
(* has already left may be set or not                                       *)
TcpConnected ==
  /\ pc = "TcpWritable" /\ pc' = "Uart"
  /\ tcpFd \in wfds /\ tcpSt \in {"up", "gone"}
  /\ tcp_connected' = 1
  /\ set_raderDlen(0)
  /\ UNCHANGED <<uart_fd, tcp_fd, udp_fd, net_addr, peer, locals, kern,
                 uartSt, tcpSt, queues, history>>
TcpFailed ==
  /\ pc = "TcpWritable" /\ pc' = "Uart"
  /\ tcpFd \in wfds /\ tcpSt \in {"failed", "gone"}
  /\ tcp_connected' = 0
  /\ CloseTcpSocket
  /\ UNCHANGED <<raderVars, uart_fd, udp_fd, net_addr, peer, locals, uartSt,
                 uartIn, udpIn, stdinIn, history>>

(* A read takes what has arrived, at most MaxRead bytes.  It is thrown away *)
(* unless the TCP connection is up; `gone' is the reset that makes the      *)
(* write of a reply kill the process with SIGPIPE, or not yet.              *)
Uart ==
  /\ pc = "Uart" /\ uartFd \in rfds /\ uartIn # << >>
  /\ \E n \in 1 .. min(MaxRead, Len(uartIn)) :
       /\ uartIn' = SubSeq(uartIn, n + 1, Len(uartIn))
       /\ IF tcpFd > 0 /\ tcp_connected # 0
            THEN rader_recv(SubSeq(uartIn, 1, n))
            ELSE Quiet
  /\ \/ pc' = IF ret' = DATA_FLAG_S THEN "AutoF" ELSE "Tcp"
     \/ tcpTx' # << >> /\ tcpSt = "gone" /\ pc' = "killed"
  /\ UNCHANGED <<statics, locals, kern, uartSt, tcpSt, tcpIn, udpIn, stdinIn,
                 history>>

(* an unplugged port reads as empty; it is not closed *)
UartGone ==
  /\ pc = "Uart" /\ uartFd \in rfds /\ uartIn = << >>
  /\ Skip("Uart", "Tcp")

(* rader_cmd_from_stdin(uartFd,"F",1) *)
AutoF ==
  /\ pc = "AutoF" /\ pc' = "Tcp"
  /\ rader_cmd_from_stdin(<<70>>)
  /\ ToRadar /\ Credit("auto")
  /\ UNCHANGED <<statics, locals, kern, uartSt, tcpSt, tcpIn, udpIn, stdinIn>>

(* the return value of rader_cmd is ignored here *)
Tcp ==
  /\ pc = "Tcp" /\ pc' = "Udp"
  /\ tcpFd \in rfds /\ tcpIn # << >>
  /\ tcpIn' = Tail(tcpIn)
  /\ IF uartFd > 0
       THEN rader_cmd(Head(tcpIn)) /\ ToRadar /\ Credit("tcp")
       ELSE Quiet /\ UNCHANGED <<uartIn, history>>
  /\ UNCHANGED <<statics, locals, kern, uartSt, tcpSt, udpIn, stdinIn>>

(* the peer has gone: read returns 0 or an error, and nothing is closed *)
TcpGone_Returns ==
  /\ pc = "Tcp" /\ tcpFd \in rfds /\ tcpIn = << >>
  /\ Skip("Tcp", "OpenUart")
TcpGone ==
  /\ pc = "Tcp" /\ tcpFd \in rfds /\ tcpIn = << >>
  /\ Skip("Tcp", "Udp")

(* the sender becomes the address of the next connection *)
Udp ==
  /\ pc = "Udp" /\ pc' = "Stdin"
  /\ udpFd \in rfds /\ udpIn # << >>
  /\ udpIn' = Tail(udpIn)
  /\ net_addr' = Head(udpIn).from
  /\ rader_cmd(Head(udpIn).buf) /\ ToRadar
  /\ IF ret' = 1
       THEN CloseTcpSocket /\ crossed' = TRUE /\ UNCHANGED <<origin, fresh>>
       ELSE Credit("udp") /\ UNCHANGED <<tcp_fd, kern, tcpSt, tcpIn>>
  /\ UNCHANGED <<uart_fd, udp_fd, tcp_connected, peer, locals, uartSt, stdinIn>>

(* scanf("%s") passes over blank lines and waits for a token *)
ScanBlank ==
  /\ pc = "Stdin" /\ 0 \in rfds /\ stdinIn # << >> /\ Head(stdinIn) = Blank
  /\ stdinIn' = Tail(stdinIn)
  /\ UNCHANGED <<raderVars, statics, pc, locals, kern, uartSt, tcpSt, uartIn,
                 tcpIn, udpIn, history>>
Stdin ==
  /\ pc = "Stdin" /\ pc' = "OpenUart"
  /\ 0 \in rfds /\ stdinIn # << >> /\ Head(stdinIn) # Blank
  /\ stdinIn' = Tail(stdinIn)
  /\ rader_cmd_from_stdin(Head(stdinIn)) /\ ToRadar /\ Credit("console")
  /\ UNCHANGED <<statics, locals, kern, uartSt, tcpSt, tcpIn, udpIn>>

NotReady ==
  \/ tcpFd \notin wfds /\ Skip("TcpWritable", "Uart")
  \/ uartFd \notin rfds /\ Skip("Uart", "Tcp")
  \/ tcpFd \notin rfds /\ Skip("Tcp", "Udp")
  \/ udpFd \notin rfds /\ Skip("Udp", "Stdin")
  \/ 0 \notin rfds /\ Skip("Stdin", "OpenUart")

Process ==
  \/ OpenUart \/ StartTcp \/ StartUdp
  \/ Select \/ SelectTimeout \/ SelectError
  \/ TcpConnected \/ TcpFailed \/ Uart \/ UartGone \/ AutoF
  \/ Tcp \/ TcpGone \/ Udp \/ ScanBlank \/ Stdin \/ NotReady

Running == pc \notin {"exited", "killed"}

(* signal_func: SIGINT and SIGQUIT close everything and exit, at any point  *)
signal_func ==
  /\ May("signal") /\ Running
  /\ pc' = "exited"
  /\ uart_fd' = 0 /\ udp_fd' = 0 /\ tcp_fd' = 0
  /\ kern' = [fd \in Fds |->
                IF fd \in {uart_fd, udp_fd, tcp_fd} THEN "free" ELSE kern[fd]]
  /\ uartSt' = "closed" /\ tcpSt' = "closed"
  /\ uartIn' = << >> /\ tcpIn' = << >> /\ udpIn' = << >>
  /\ UNCHANGED <<raderVars, tcp_connected, net_addr, peer, locals, stdinIn,
                 history>>

-----------------------------------------------------------------------------
(* The surroundings *)

Surroundings ==
  UNCHANGED <<raderVars, statics, pc, locals, kern, history>>

Accept ==
  /\ tcpSt = "connecting" /\ tcpSt' = "up"
  /\ Surroundings /\ UNCHANGED <<uartSt, queues>>
Refused ==
  /\ May("refuse") /\ tcpSt = "connecting" /\ tcpSt' = "failed"
  /\ Surroundings /\ UNCHANGED <<uartSt, queues>>
Hangup ==
  /\ May("hangup") /\ tcpSt = "up" /\ tcpSt' = "gone"
  /\ Surroundings /\ UNCHANGED <<uartSt, queues>>

ServerSends(buf) ==
  /\ tcpSt = "up" /\ Len(tcpIn) < MaxQueue
  /\ tcpIn' = Append(tcpIn, buf)
  /\ Surroundings /\ UNCHANGED <<uartSt, tcpSt, uartIn, udpIn, stdinIn>>
DatagramArrives(from, buf) ==
  /\ udp_fd > 0 /\ Len(udpIn) < MaxQueue
  /\ udpIn' = Append(udpIn, [from |-> from, buf |-> buf])
  /\ Surroundings /\ UNCHANGED <<uartSt, tcpSt, uartIn, tcpIn, stdinIn>>
LineTyped(line) ==
  /\ Len(stdinIn) < MaxQueue
  /\ stdinIn' = Append(stdinIn, line)
  /\ Surroundings /\ UNCHANGED <<uartSt, tcpSt, uartIn, tcpIn, udpIn>>

ByteLost ==
  /\ May("lose") /\ uartIn # << >> /\ uartIn' = Tail(uartIn)
  /\ Surroundings /\ UNCHANGED <<uartSt, tcpSt, tcpIn, udpIn, stdinIn>>
Unplugged ==
  /\ May("unplug") /\ uartSt = "open" /\ uartSt' = "gone"
  /\ uartIn' = << >>
  /\ Surroundings /\ UNCHANGED <<tcpSt, tcpIn, udpIn, stdinIn>>

Inputs ==
  \/ \E buf \in ServerPackets : ServerSends(buf)
  \/ \E buf \in Datagrams, from \in Peers : DatagramArrives(from, buf)
  \/ \E line \in Lines : LineTyped(line)

Environment ==
  /\ Running
  /\ Accept \/ Refused \/ Hangup \/ Inputs \/ ByteLost \/ Unplugged

Over == ~Running /\ UNCHANGED vars

Next == Process \/ signal_func \/ Environment \/ Over

Spec == Init /\ [][Next]_vars

(* The kernel keeps scheduling the process; a server that is asked again    *)
(* and again accepts a connection some time, and stays some time until the  *)
(* process has noticed.                                                     *)
Fairness == WF_vars(Process) /\ SF_vars(Accept) /\ SF_vars(TcpConnected)
LiveSpec == Spec /\ Fairness

-----------------------------------------------------------------------------

Status == {"closed", "open", "gone", "connecting", "up", "failed"}
Parts == {"OpenUart", "StartTcp", "StartUdp", "Select", "TcpWritable", "Uart",
          "AutoF", "Tcp", "Udp", "Stdin", "exited", "killed"}

PsuTypeOK ==
  /\ RaderTypeOK
  /\ {uart_fd, tcp_fd, udp_fd} \subseteq Fds \cup {0, -1}
  /\ {uartFd, tcpFd, udpFd} \subseteq Fds \cup {0, -1, -2}
  /\ tcp_connected \in {0, 1} /\ {net_addr, peer} \subseteq Peers
  /\ pc \in Parts
  /\ rfds \subseteq Fds \cup {0} /\ wfds \subseteq Fds
  /\ kern \in [Fds -> {"free", "uart", "tcp", "udp"}]
  /\ {uartSt, tcpSt} \subseteq Status

(* Every open descriptor is in exactly the field of psus_config that will   *)
(* close it, and every field holds an open descriptor of its own kind: none *)
(* is leaked by a failing Start..., closed twice or shared, whatever fails. *)
DescriptorsOwned ==
  Running =>
    \A fd \in Fds : /\ kern[fd] = "uart" <=> uart_fd = fd
                    /\ kern[fd] = "tcp" <=> tcp_fd = fd
                    /\ kern[fd] = "udp" <=> udp_fd = fd

(* uartFd, tcpFd and udpFd are copied at the head of the pass, handlers     *)
(* close descriptors in its middle: what a handler is about to use is still *)
(* the descriptor it was.                                                   *)
UsesOpenDescriptors ==
  /\ pc \in {"Uart", "AutoF", "Tcp", "Udp", "Stdin"} /\ uartFd > 0 =>
       kern[uartFd] = "uart"
  /\ pc = "Uart" /\ tcpFd > 0 /\ tcp_connected # 0 => kern[tcpFd] = "tcp"
  /\ pc = "Tcp" /\ tcpFd \in rfds => kern[tcpFd] = "tcp"
  /\ pc = "Udp" /\ udpFd \in rfds => kern[udpFd] = "udp"

(* tcp_connected outlives the socket it was set for; it never makes a       *)
(* socket that is still connecting pass for a connection.                   *)
ConnectedIsUp == Connected => tcpSt \in {"up", "gone"}

(* "F" is sent by itself after the answer to S; the command slot is free at *)
(* that point, so it is never refused.                                      *)
AutoFTaken == pc = "AutoF" => Idle /\ uartFd > 0

(* If the serial line was silent when a command was forwarded, its reply    *)
(* holds bytes of its own answer only: commands of the other three sources  *)
(* do not get at the radar in between.                                      *)
OwnAnswer ==
  tcpTx # << >> /\ fresh =>
    \A i \in 1 .. ERUP_GET_LEN(tcpTx) :
       ERUP_GET_DATA(tcpTx)[i] = ERUP_GET_FLAG(tcpTx)

(* A reply goes out on the connection that existed when its command was     *)
(* forwarded, never on a later one.                                         *)
SameConnection == tcpTx # << >> => ~crossed

(* A command in progress comes to an end, by its reply or by a new          *)
(* connection, unless bytes of its answer are owing while the connection is *)
(* up: lost on the line, or never asked for because the port was closed.    *)
(* There is no timeout, and until it ends every other command is refused.   *)
(* Datagrams that keep closing the connection can put it off as well.       *)
Owed == raderDlen > 0 /\ ringbuffer_len(fifo) + Len(uartIn) < raderDlen
BusyEnds ==
  raderDlen > 0 ~> raderDlen = 0 \/ (Connected /\ Owed) \/ udpIn # << >>

(* Even a command no answer can end, its bytes lost or the port closed, is  *)
(* ended by the next connection: it does not keep the slot for ever once    *)
(* the connection it came on, or under, has broken.                         *)
SlotFreed ==
  raderDlen > 0 /\ ~Connected ~> raderDlen = 0 \/ udpIn # << >> \/ ~Running

(* The last host heard of by UDP is the one the next connection is made to, *)
(* and without a socket that connection comes about, failing attempts and   *)
(* hang-ups notwithstanding, unless another datagram comes.                 *)
ConnectsToAddressed ==
  \A host \in Peers :
     tcp_fd <= 0 /\ net_addr = host ~>
       (Connected /\ peer = host) \/ udpIn # << >> \/ ~Running

(* A datagram is handled whatever the others do: a hung-up connection that  *)
(* is readable for ever, a full serial line or a console that keeps typing  *)
(* do not keep the loop from its UDP branch.  (A console line without a     *)
(* token does: scanf waits in it.)                                          *)
DatagramsTaken == udpIn # << >> ~> udpIn = << >> \/ ~Running

(* The code never closes a connection the peer has left; "close socket!"    *)
(* by UDP is the way out of it, a command in progress or not.               *)
Closing == udpIn # << >> /\ Closes(Head(udpIn).buf)
CloseEndsDeadConnection ==
  tcpSt = "gone" /\ Closing ~> tcpSt # "gone" \/ ~Running

(* psuservice.c:455, at the UDP branch: "after handling it the client       *)
(* responds along the path the message came": a command that came in a      *)
(* datagram is not answered on the TCP connection.                          *)
RespondsAlongOriginalPath == tcpTx # << >> => origin # "udp"
=============================================================================
