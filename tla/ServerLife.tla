----------------------------- MODULE ServerLife -----------------------------
(***************************************************************************)
(* The life of Server (src/core/Network.cpp), which Application has on     *)
(* Windows, from its constructor to the end of its destructor, with the    *)
(* query of Client that Application::Initialize makes meanwhile:           *)
(*  - main: starts two threads before it constructs m_onData, queries,     *)
(*    and in the destructor stops the io_context and joins;                *)
(*  - the TCP thread: binds the port, copies m_onData, and runs handlers   *)
(*    in the order in which their operations complete;                     *)
(*  - the mDNS thread (src/mdns/mdns.c): answers queries until it sees     *)
(*    terminate, at least once a second;                                   *)
(*  - peers: connect, send, close, and are cut off; accepts fail.          *)
(* What is sent is counted in pieces, as they arrive, whole packets or     *)
(* not, and a read takes one or several.  What a session makes of packets  *)
(* cut or joined is TcpFraming's matter; as there, nothing is said of what *)
(* follows once it has misread one.                                        *)
(***************************************************************************)
EXTENDS Naturals, Sequences, Functions

CONSTANTS
  Peers,      \* those who may connect
  Nobody,     \* the peer of a failed accept
  Capacity,   \* size of ipaddr_array's addr: 10
  MaxPieces,  \* bound: pieces each peer sends
  MaxAnswers, \* bound: answers to the query
  MaxFailures \* bound: accepts that fail

ASSUME ServerAssumption ==
  /\ Nobody \notin Peers
  /\ MaxPieces \in [Peers -> Nat]
  /\ Capacity \in Nat /\ MaxAnswers \in Nat /\ MaxFailures \in Nat

VARIABLES
  main,     \* where the main thread is
  tcp,      \* where the TCP thread is
  mdns,     \* where the mDNS thread is
  wsa,      \* WSAStartups without their WSACleanup
  onData,   \* m_onData of the Server is constructed
  stopped,  \* the io_context is stopped
  terminate,\* terminate of mdns.c
  answers,  \* addresses in ipaddr_array
  client,   \* m_tcpClient of the Client is made
  accepting,\* an async_accept is under way
  reading,  \* the sessions whose async_read_some is under way
  ready,    \* handlers of completed operations, oldest first
  backlog,  \* peers the system has connected and nobody has accepted
  joined,   \* peers that have connected
  closed,   \* peers that have closed
  lost,     \* peers that were cut off, or given up by a failed accept
  sent,     \* pieces sent, per peer
  unread,   \* pieces sent and not read yet, per peer
  taken,    \* pieces a session has been given, per peer
  failures, \* accepts that have failed
  dead      \* the process has ended, or nothing is said of it any more

threadVars == <<main, tcp, mdns, wsa, onData, stopped, terminate>>
queryVars  == <<answers, client>>
sessionVars == <<accepting, reading, ready, taken, failures>>
peerVars   == <<backlog, joined, closed, lost, sent, unread>>
serverVars == <<threadVars, queryVars, sessionVars, peerVars, dead>>

(* "startMdns", "startTcp", "onData": in Server's constructor; "query",    *)
(* "asking": in send_mdns_query; "up"; "joinTcp", "shutdown", "joinMdns":  *)
(* in the destructor, after stop(); "gone".                                *)
MainStates == {"startMdns", "startTcp", "onData", "query", "asking", "up",
               "joinTcp", "shutdown", "joinMdns", "gone"}
TcpStates  == {"none", "startup", "bind", "copy", "run", "end"}
MdnsStates == {"none", "startup", "sockets", "listen", "end"}

(* What a completed operation hands to its handler: the peer and, of a     *)
(* read, the pieces, none after an error.                                  *)
Failed   == [op |-> "accept", peer |-> Nobody, pieces |-> 0]
Handlers == [op : {"accept", "read"}, peer : Peers, pieces : Nat] \cup {Failed}

ServerTypeOK ==
  /\ main \in MainStates /\ tcp \in TcpStates /\ mdns \in MdnsStates
  /\ wsa \in Nat
  /\ onData \in BOOLEAN /\ stopped \in BOOLEAN /\ terminate \in BOOLEAN
  /\ answers \in Nat /\ client \in BOOLEAN
  /\ accepting \in BOOLEAN /\ reading \subseteq Peers
  /\ ready \in Seq(Handlers) /\ backlog \in Seq(Peers)
  /\ joined \subseteq Peers /\ closed \subseteq Peers /\ lost \subseteq Peers
  /\ sent \in [Peers -> Nat] /\ unread \in [Peers -> Nat] /\ taken \in [Peers -> Nat]
  /\ failures \in Nat
  /\ dead \in BOOLEAN

ServerInit ==
  /\ main = "startMdns" /\ tcp = "none" /\ mdns = "none"
  /\ wsa = 0
  /\ onData = FALSE /\ stopped = FALSE /\ terminate = FALSE
  /\ answers = 0 /\ client = FALSE
  /\ accepting = FALSE /\ reading = {}
  /\ ready = << >> /\ backlog = << >>
  /\ joined = {} /\ closed = {} /\ lost = {}
  /\ sent = [p \in Peers |-> 0] /\ unread = [p \in Peers |-> 0]
  /\ taken = [p \in Peers |-> 0] /\ failures = 0
  /\ dead = FALSE

(* After undefined behaviour, or a packet misread, all may go on, or end:  *)
(* the process, or what can be said of it.                                 *)
MayDie == dead' \in BOOLEAN
Lives  == UNCHANGED dead
-----------------------------------------------------------------------------
(* Server's constructor: the members in the order of their declaration.    *)

StartMdnsThread ==
  /\ main = "startMdns" /\ main' = "startTcp"
  /\ mdns' = "startup"
  /\ Lives
  /\ UNCHANGED <<tcp, wsa, onData, stopped, terminate, queryVars, sessionVars, peerVars>>

StartTcpThread ==
  /\ main = "startTcp" /\ main' = "onData"
  /\ tcp' = "startup"
  /\ Lives
  /\ UNCHANGED <<mdns, wsa, onData, stopped, terminate, queryVars, sessionVars, peerVars>>

MakeOnData ==
  /\ main = "onData" /\ main' = "query"
  /\ onData' = TRUE
  /\ Lives
  /\ UNCHANGED <<tcp, mdns, wsa, stopped, terminate, queryVars, sessionVars, peerVars>>

(* send_mdns_query opens its sockets, which may fail.  Then it returns     *)
(* before it has set count, and Client goes over as many addresses as that *)
(* says.  (asio has started Winsock with m_iocontext, whatever the two     *)
(* threads have done.)                                                     *)
OpenQuery ==
  /\ main = "query"
  /\ \/ main' = "asking" /\ Lives /\ UNCHANGED client
     \/ main' = "up" /\ client' \in BOOLEAN /\ MayDie
  /\ UNCHANGED <<tcp, mdns, wsa, onData, stopped, terminate, answers, sessionVars, peerVars>>

(* get_ipaddr_callback does not look how many there are: the address after *)
(* the last is written over count and beyond.                              *)
Answer ==
  /\ main = "asking" /\ answers < MaxAnswers
  /\ answers' = answers + 1
  /\ IF answers < Capacity THEN Lives ELSE MayDie
  /\ UNCHANGED <<threadVars, client, sessionVars, peerVars>>

(* No answer for a second.  The client is made if there was one, and the   *)
(* array goes with Client's constructor.                                   *)
EndQuery ==
  /\ main = "asking" /\ main' = "up"
  /\ client' \in BOOLEAN /\ (answers <= Capacity => (client' <=> answers > 0))
  /\ answers' = 0
  /\ Lives
  /\ UNCHANGED <<tcp, mdns, wsa, onData, stopped, terminate, sessionVars, peerVars>>

(* Server's destructor, up to the first join.  Application reaches it only *)
(* if it was never ticked: else the Player is destroyed before.            *)
Destroy ==
  /\ main = "up" /\ main' = "joinTcp"
  /\ stopped' = TRUE
  /\ Lives
  /\ UNCHANGED <<tcp, mdns, wsa, onData, terminate, queryVars, sessionVars, peerVars>>

(* Mutant of JoinTcp: the thread is detached. *)
DetachTcp ==
  /\ main = "joinTcp" /\ main' = "shutdown"
  /\ Lives
  /\ UNCHANGED <<tcp, mdns, wsa, onData, stopped, terminate, queryVars, sessionVars,
                 peerVars>>

JoinTcp ==
  /\ main = "joinTcp" /\ tcp = "end" /\ main' = "shutdown"
  /\ Lives
  /\ UNCHANGED <<tcp, mdns, wsa, onData, stopped, terminate, queryVars, sessionVars,
                 peerVars>>

(* Mutant of Shutdown: terminate is cleared for the next Server. *)
ShutdownCleared ==
  /\ main = "shutdown" /\ main' = "joinMdns"
  /\ terminate' = FALSE
  /\ Lives
  /\ UNCHANGED <<tcp, mdns, wsa, onData, stopped, queryVars, sessionVars, peerVars>>

(* mdns_shutdown *)
Shutdown ==
  /\ main = "shutdown" /\ main' = "joinMdns"
  /\ terminate' = TRUE
  /\ Lives
  /\ UNCHANGED <<tcp, mdns, wsa, onData, stopped, queryVars, sessionVars, peerVars>>

JoinMdns ==
  /\ main = "joinMdns" /\ mdns = "end" /\ main' = "gone"
  /\ Lives
  /\ UNCHANGED <<tcp, mdns, wsa, onData, stopped, terminate, queryVars, sessionVars,
                 peerVars>>

Destructor == JoinTcp \/ Shutdown \/ JoinMdns
Main == \/ StartMdnsThread \/ StartTcpThread \/ MakeOnData
        \/ OpenQuery \/ Answer \/ EndQuery
        \/ Destroy \/ Destructor
-----------------------------------------------------------------------------
(* The mDNS thread. *)

(* WSAStartup, which may fail. *)
MdnsStartup ==
  /\ mdns = "startup"
  /\ \/ mdns' = "sockets" /\ wsa' = wsa + 1
     \/ mdns' = "end" /\ UNCHANGED wsa
  /\ Lives
  /\ UNCHANGED <<main, tcp, onData, stopped, terminate, queryVars, sessionVars, peerVars>>

(* open_service_sockets, which may fail; then WSACleanup. *)
MdnsSockets ==
  /\ mdns = "sockets"
  /\ \/ mdns' = "listen" /\ UNCHANGED wsa
     \/ mdns' = "end" /\ wsa' = wsa - 1
  /\ Lives
  /\ UNCHANGED <<main, tcp, onData, stopped, terminate, queryVars, sessionVars, peerVars>>

(* select has returned, at the latest after a second. *)
MdnsSelect ==
  /\ mdns = "listen" /\ terminate
  /\ mdns' = "end" /\ wsa' = wsa - 1
  /\ Lives
  /\ UNCHANGED <<main, tcp, onData, stopped, terminate, queryVars, sessionVars, peerVars>>

(* select has failed. *)
MdnsFails ==
  /\ mdns = "listen"
  /\ mdns' = "end" /\ wsa' = wsa - 1
  /\ Lives
  /\ UNCHANGED <<main, tcp, onData, stopped, terminate, queryVars, sessionVars, peerVars>>

MdnsThread == MdnsStartup \/ MdnsSockets \/ MdnsSelect
-----------------------------------------------------------------------------
(* The TCP thread. *)

TcpStartup ==
  /\ tcp = "startup"
  /\ \/ tcp' = "bind" /\ wsa' = wsa + 1
     \/ tcp' = "end" /\ UNCHANGED wsa
  /\ Lives
  /\ UNCHANGED <<main, mdns, onData, stopped, terminate, queryVars, sessionVars, peerVars>>

(* TcpServer's acceptor_: throws if the port is taken. *)
Bind ==
  /\ tcp = "bind"
  /\ \/ tcp' = "copy" /\ Lives
     \/ dead' = TRUE /\ UNCHANGED tcp
  /\ UNCHANGED <<main, mdns, wsa, onData, stopped, terminate, queryVars, sessionVars,
                 peerVars>>

(* TcpServer's m_onData, copied from what may not be an object yet, and    *)
(* the first do_accept.                                                    *)
CopyOnData ==
  /\ tcp = "copy" /\ tcp' = "run"
  /\ IF onData THEN Lives ELSE MayDie
  /\ accepting' = TRUE
  /\ UNCHANGED <<main, mdns, wsa, onData, stopped, terminate, queryVars, reading, ready,
                 taken, failures, peerVars>>

(* run() returns once the io_context is stopped, also when it was stopped  *)
(* before; the TcpServer is destroyed.                                     *)
TcpEnds ==
  /\ tcp = "run" /\ stopped
  /\ tcp' = "end" /\ wsa' = wsa - 1
  /\ accepting' = FALSE
  /\ Lives
  /\ UNCHANGED <<main, mdns, onData, stopped, terminate, queryVars, reading, ready, taken,
                 failures, peerVars>>

Running == tcp = "run" /\ ~stopped

(* There is something to read, or the peer has closed or was cut off.      *)
ReadCompletes(p) ==
  /\ Running /\ p \in reading
  /\ \E k \in 0 .. unread[p] :
       /\ k = 0 => unread[p] = 0 /\ p \in closed
       /\ ready' = Append(ready, [op |-> "read", peer |-> p, pieces |-> k])
       /\ unread' = [unread EXCEPT ![p] = @ - k]
  /\ reading' = reading \ {p}
  /\ Lives
  /\ UNCHANGED <<threadVars, queryVars, accepting, taken, failures, backlog, joined, closed,
                 lost, sent>>

AcceptCompletes ==
  /\ Running /\ accepting /\ backlog # << >>
  /\ accepting' = FALSE
  /\ ready' = Append(ready, [op |-> "accept", peer |-> Head(backlog), pieces |-> 0])
  /\ backlog' = Tail(backlog)
  /\ Lives
  /\ UNCHANGED <<threadVars, queryVars, reading, taken, failures, joined, closed, lost, sent,
                 unread>>

(* The accept completes with an error, with or without a connection to     *)
(* give up.                                                                *)
AcceptFails ==
  /\ Running /\ accepting /\ failures < MaxFailures
  /\ accepting' = FALSE
  /\ ready' = Append(ready, Failed)
  /\ failures' = failures + 1
  /\ \/ UNCHANGED <<backlog, lost>>
     \/ /\ backlog # << >>
        /\ backlog' = Tail(backlog) /\ lost' = lost \cup {Head(backlog)}
  /\ Lives
  /\ UNCHANGED <<threadVars, queryVars, reading, taken, joined, closed, sent, unread>>

(* A connection that was cut off before it was accepted: asio goes on with *)
(* the same accept, and calls no handler.                                  *)
AcceptAborted ==
  /\ Running /\ accepting /\ backlog # << >> /\ Head(backlog) \in lost
  /\ backlog' = Tail(backlog)
  /\ Lives
  /\ UNCHANGED <<threadVars, queryVars, sessionVars, joined, closed, lost, sent, unread>>

(* Mutant of HandleAccept: the next accept is begun only after a success.  *)
HandleAcceptOnSuccess ==
  /\ Running /\ ready # << >> /\ Head(ready).op = "accept"
  /\ ready' = Tail(ready)
  /\ reading' = reading \cup ({Head(ready).peer} \ {Nobody})
  /\ accepting' = (Head(ready) # Failed)
  /\ Lives
  /\ UNCHANGED <<threadVars, queryVars, taken, failures, peerVars>>

(* A session is made, unless the accept has failed, and starts to read;    *)
(* either way the next accept is begun.                                    *)
HandleAccept ==
  /\ Running /\ ready # << >> /\ Head(ready).op = "accept"
  /\ ready' = Tail(ready)
  /\ reading' = reading \cup ({Head(ready).peer} \ {Nobody})
  /\ accepting' = TRUE
  /\ Lives
  /\ UNCHANGED <<threadVars, queryVars, taken, failures, peerVars>>

(* Mutant of HandleRead: after an error the handler tries again at once,   *)
(* and again, and nobody else has a turn.                                  *)
HandleReadRetries ==
  /\ Running /\ ready # << >> /\ Head(ready).op = "read"
  /\ Head(ready).pieces > 0
  /\ ready' = Tail(ready)
  /\ reading' = reading \cup {Head(ready).peer}
  /\ taken' = [taken EXCEPT ![Head(ready).peer] = @ + Head(ready).pieces]
  /\ MayDie
  /\ UNCHANGED <<threadVars, queryVars, accepting, failures, peerVars>>

(* The session takes what was read, if anything: m_onData may have been    *)
(* copied from no object, and packets be misread.  The next read is begun  *)
(* also after an error.                                                    *)
HandleRead ==
  /\ Running /\ ready # << >> /\ Head(ready).op = "read"
  /\ ready' = Tail(ready)
  /\ reading' = reading \cup {Head(ready).peer}
  /\ taken' = [taken EXCEPT ![Head(ready).peer] = @ + Head(ready).pieces]
  /\ IF Head(ready).pieces > 0 THEN MayDie ELSE Lives
  /\ UNCHANGED <<threadVars, queryVars, accepting, failures, peerVars>>

Handle == HandleAccept \/ HandleRead
TcpThread == TcpStartup \/ Bind \/ CopyOnData \/ TcpEnds \/ Handle
-----------------------------------------------------------------------------
(* The peers, once the port is open. *)

Connect(p) ==
  /\ tcp \in {"copy", "run"} /\ p \notin joined
  /\ joined' = joined \cup {p}
  /\ backlog' = Append(backlog, p)
  /\ Lives
  /\ UNCHANGED <<threadVars, queryVars, sessionVars, closed, lost, sent, unread>>

SendPiece(p) ==
  /\ p \in joined \ closed /\ sent[p] < MaxPieces[p]
  /\ sent' = [sent EXCEPT ![p] = @ + 1]
  /\ unread' = [unread EXCEPT ![p] = @ + 1]
  /\ Lives
  /\ UNCHANGED <<threadVars, queryVars, sessionVars, backlog, joined, closed, lost>>

(* What was sent before can still be read. *)
Close(p) ==
  /\ p \in joined \ closed
  /\ closed' = closed \cup {p}
  /\ Lives
  /\ UNCHANGED <<threadVars, queryVars, sessionVars, backlog, joined, lost, sent, unread>>

(* A peer is cut off, also after it has closed: what was not read is gone. *)
Reset(p) ==
  /\ p \in joined \ lost
  /\ closed' = closed \cup {p} /\ lost' = lost \cup {p}
  /\ unread' = [unread EXCEPT ![p] = 0]
  /\ Lives
  /\ UNCHANGED <<threadVars, queryVars, sessionVars, backlog, joined, sent>>

Completions == AcceptCompletes \/ \E p \in Peers : ReadCompletes(p)
Network == \/ AcceptFails \/ AcceptAborted
           \/ \E p \in Peers : Connect(p) \/ SendPiece(p) \/ Close(p) \/ Reset(p)

ServerNext ==
  ~dead /\ (Main \/ MdnsThread \/ MdnsFails \/ TcpThread \/ Completions \/ Network)

ServerSpec == ServerInit /\ [][ServerNext]_serverVars

(* Threads run, completed operations are found, and select times out; of   *)
(* failing accepts there is an end.                                        *)
FairServerSpec ==
  /\ ServerSpec
  /\ WF_serverVars(~dead /\ Destructor)
  /\ WF_serverVars(~dead /\ MdnsThread)
  /\ WF_serverVars(~dead /\ TcpThread)
  /\ WF_serverVars(~dead /\ AcceptCompletes)
  /\ \A p \in Peers : WF_serverVars(~dead /\ ReadCompletes(p))
-----------------------------------------------------------------------------
(* Properties. *)

(* When the destructor has returned, neither thread is left to use the     *)
(* Server, and each WSAStartup has had its WSACleanup.                     *)
NoneLeft == main = "gone" => tcp = "end" /\ mdns = "end" /\ wsa = 0

(* Completed operations of peers, accepts among them.                      *)
CompletedOf == [i \in DOMAIN ready |-> ready[i].peer]
AcceptsReady == {i \in DOMAIN ready : ready[i].op = "accept"}

(* A peer waits in the backlog, or has one completed operation, or is read *)
(* from: nobody is in two places and, but for those given up before they   *)
(* were accepted, nobody in none.                                          *)
EachPeerOnce ==
  LET places == reading \cup Range(CompletedOf) \cup Range(backlog) IN
  /\ IsInjective(backlog) /\ IsInjective(CompletedOf)
  /\ reading \cap Range(CompletedOf) = {}
  /\ reading \cap Range(backlog) = {} /\ Range(CompletedOf) \cap Range(backlog) = {}
  /\ joined \ lost \subseteq places /\ places \subseteq joined \cup {Nobody}

(* While the thread runs, one accept is under way, or one completed.       *)
OneAccept ==
  /\ \A i, j \in AcceptsReady : i = j
  /\ tcp = "run" => (accepting <=> AcceptsReady = {})

(* do_accept and do_read are called at the end of their own handlers, and  *)
(* nothing but that keeps the one socket_ of all the accepts and the one   *)
(* buffer of a session from a second operation, and the acceptor and every *)
(* session from ending: neither is ever without its operation or with two, *)
(* whichever accepts and reads end with an error.                          *)
OneOperationEach == EachPeerOnce /\ OneAccept

(* stop() before run() or during it, mdns_shutdown before the loop or      *)
(* during it, either thread failing early, sessions that never end: the    *)
(* destructor returns.                                                     *)
ServerDestructorReturns == main = "joinTcp" ~> (main = "gone" \/ dead)

(* The handler of a session whose peer has closed runs for ever, accepts   *)
(* fail, peers are cut off: what the others send is still read, however    *)
(* late they connect.                                                      *)
EveryPieceIsRead ==
  \A p \in Peers : \A n \in 1 .. MaxPieces[p] :
    sent[p] >= n ~> (taken[p] >= n \/ p \in lost \/ stopped \/ dead)
=============================================================================
