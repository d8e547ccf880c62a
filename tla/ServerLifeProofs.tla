--------------------------- MODULE ServerLifeProofs ---------------------------
(***************************************************************************)
(* Proofs about ServerLife, for any peers, pieces, answers and capacity:   *)
(* in whatever order the threads start, fail and end, the destructor       *)
(* leaves nothing behind; and the acceptor and every session have one      *)
(* operation at a time, and always have one, also where accepts fail and   *)
(* peers are cut off.                                                      *)
(***************************************************************************)
EXTENDS ServerLife, TLAPS

(* Threads that have called WSAStartup and not yet WSACleanup. *)
TcpStarted  == IF tcp \in {"bind", "copy", "run"} THEN 1 ELSE 0
MdnsStarted == IF mdns \in {"sockets", "listen"} THEN 1 ELSE 0

(* Why nothing is left: each thread accounts for its own WSAStartup, none  *)
(* has started before the constructor starts it, and a join is passed only *)
(* by a thread that has ended, which stays so.                             *)
LifeInv ==
  /\ wsa = TcpStarted + MdnsStarted
  /\ main = "startMdns" => mdns = "none"
  /\ main \in {"startMdns", "startTcp"} => tcp = "none"
  /\ main \in {"shutdown", "joinMdns", "gone"} => tcp = "end"
  /\ main = "gone" => mdns = "end"

(* The TCP thread: only TcpStartup and TcpEnds change what it accounts for.*)
LEMMA TcpLife ==
  ASSUME LifeInv, TcpThread
  PROVE  LifeInv'
<1>1. CASE TcpStartup
  BY <1>1 DEF TcpStartup, LifeInv, TcpStarted, MdnsStarted
<1>2. CASE Bind
  BY <1>2 DEF Bind, LifeInv, TcpStarted, MdnsStarted
<1>3. CASE CopyOnData
  BY <1>3 DEF CopyOnData, LifeInv, TcpStarted, MdnsStarted
<1>4. CASE TcpEnds
  BY <1>4 DEF TcpEnds, LifeInv, TcpStarted, MdnsStarted
<1>5. CASE Handle
  BY <1>5 DEF Handle, HandleAccept, HandleRead, threadVars, LifeInv, TcpStarted, MdnsStarted
<1>6. QED
  BY <1>1, <1>2, <1>3, <1>4, <1>5 DEF TcpThread

(* The mDNS thread, also where select fails. *)
LEMMA MdnsLife ==
  ASSUME LifeInv, MdnsThread \/ MdnsFails
  PROVE  LifeInv'
<1>1. CASE MdnsStartup
  BY <1>1 DEF MdnsStartup, LifeInv, TcpStarted, MdnsStarted
<1>2. CASE MdnsSockets
  BY <1>2 DEF MdnsSockets, LifeInv, TcpStarted, MdnsStarted
<1>3. CASE MdnsSelect
  BY <1>3 DEF MdnsSelect, LifeInv, TcpStarted, MdnsStarted
<1>4. CASE MdnsFails
  BY <1>4 DEF MdnsFails, LifeInv, TcpStarted, MdnsStarted
<1>5. QED
  BY <1>1, <1>2, <1>3, <1>4 DEF MdnsThread

(* The main thread: constructor, query and destructor. *)
LEMMA MainLife ==
  ASSUME LifeInv, Main
  PROVE  LifeInv'
<1>1. CASE StartMdnsThread \/ StartTcpThread \/ MakeOnData
  BY <1>1 DEF StartMdnsThread, StartTcpThread, MakeOnData, LifeInv, TcpStarted, MdnsStarted
<1>2. CASE OpenQuery \/ EndQuery \/ Destroy
  BY <1>2 DEF OpenQuery, EndQuery, Destroy, LifeInv, TcpStarted, MdnsStarted
<1>3. CASE Answer
  BY <1>3 DEF Answer, threadVars, LifeInv, TcpStarted, MdnsStarted
<1>4. CASE Destructor
  BY <1>4 DEF Destructor, JoinTcp, Shutdown, JoinMdns, LifeInv, TcpStarted, MdnsStarted
<1>5. QED
  BY <1>1, <1>2, <1>3, <1>4 DEF Main

(* LifeInv is inductive; what the peers and the network do does not touch  *)
(* the threads.                                                            *)
LEMMA LifeStep ==
  ASSUME LifeInv, [ServerNext]_serverVars
  PROVE  LifeInv'
<1>1. CASE Completions \/ Network \/ UNCHANGED serverVars
  <2>1. UNCHANGED threadVars
    BY <1>1 DEF Completions, Network, AcceptCompletes, ReadCompletes, AcceptFails,
                AcceptAborted, Connect, SendPiece, Close, Reset, serverVars
  <2>2. QED
    BY <2>1 DEF threadVars, LifeInv, TcpStarted, MdnsStarted
<1>2. QED
  BY <1>1, TcpLife, MdnsLife, MainLife DEF ServerNext

(* The account holds from the first state on. *)
LEMMA LifeInit ==
  ASSUME ServerInit
  PROVE  LifeInv
BY DEF ServerInit, LifeInv, TcpStarted, MdnsStarted

(* When the destructor has returned, both threads have ended and each has  *)
(* called its WSACleanup, whatever failed, however many peers were there   *)
(* and wherever stop() and mdns_shutdown() found the threads.              *)
THEOREM NothingIsLeft == ServerSpec => []NoneLeft
<1>1. LifeInv => NoneLeft
  BY DEF LifeInv, NoneLeft, TcpStarted, MdnsStarted
<1>2. QED
  BY <1>1, LifeInit, LifeStep, PTL DEF ServerSpec
-----------------------------------------------------------------------------
(* The types: LifeInv has what WSACleanup takes away.                      *)

(* Whom a handler is about: nobody only where an accept has failed.        *)
LEMMA HandlerPeers ==
  ASSUME NEW h \in Handlers
  PROVE  /\ h.peer \in Peers \cup {Nobody} /\ h.pieces \in Nat
         /\ h.op = "read" => h.peer \in Peers
<1>1. CASE h \in [op : {"accept", "read"}, peer : Peers, pieces : Nat]
  BY <1>1
<1>2. CASE h = Failed
  BY <1>2 DEF Failed
<1>3. QED
  BY <1>1, <1>2 DEF Handlers

(* The TCP thread keeps the types. *)
LEMMA TcpTypes ==
  ASSUME ServerTypeOK, LifeInv, TcpThread
  PROVE  ServerTypeOK'
<1>1. CASE TcpStartup \/ Bind \/ CopyOnData
  <2>1. CASE TcpStartup
    BY <2>1 DEF TcpStartup, ServerTypeOK, TcpStates, Lives, queryVars, sessionVars, peerVars
  <2>2. CASE Bind
    BY <2>2 DEF Bind, ServerTypeOK, TcpStates, Lives, queryVars, sessionVars, peerVars
  <2>3. CASE CopyOnData
    BY <2>3 DEF CopyOnData, ServerTypeOK, TcpStates, Lives, MayDie, queryVars, peerVars
  <2>4. QED
    BY <1>1, <2>1, <2>2, <2>3
<1>2. CASE TcpEnds
  <2>1. wsa' \in Nat
    BY <1>2 DEF TcpEnds, LifeInv, TcpStarted, MdnsStarted
  <2>2. QED
    BY <1>2, <2>1 DEF TcpEnds, ServerTypeOK, TcpStates, Lives, queryVars, peerVars
<1>3. CASE HandleAccept
  <2>1. ready' \in Seq(Handlers) /\ Head(ready) \in Handlers
    BY <1>3 DEF HandleAccept, ServerTypeOK
  <2>2. reading' \subseteq Peers
    BY <1>3, <2>1, HandlerPeers DEF HandleAccept, ServerTypeOK
  <2>3. QED
    BY <1>3, <2>1, <2>2 DEF HandleAccept, ServerTypeOK, Lives, threadVars, queryVars, peerVars
<1>4. CASE HandleRead
  <2> DEFINE h == Head(ready)
  <2>1. ready' \in Seq(Handlers) /\ h \in Handlers
    BY <1>4 DEF HandleRead, ServerTypeOK
  <2>2. h.op = "read"
    BY <1>4 DEF HandleRead
  <2>3. h.peer \in Peers /\ h.pieces \in Nat
    BY <2>1, <2>2, HandlerPeers
  <2>4. /\ reading' = reading \cup {h.peer}
        /\ taken' = [taken EXCEPT ![h.peer] = @ + h.pieces]
        /\ UNCHANGED <<threadVars, queryVars, accepting, failures, peerVars>>
    BY <1>4 DEF HandleRead
  <2>5. dead' \in BOOLEAN
    BY <1>4 DEF HandleRead, MayDie, Lives, ServerTypeOK
  <2> HIDE DEF h
  <2>6. reading' \subseteq Peers
    BY <2>3, <2>4 DEF ServerTypeOK
  <2>7. taken[h.peer] + h.pieces \in Nat
    BY <2>3 DEF ServerTypeOK
  <2>8. taken' \in [Peers -> Nat]
    BY <2>3, <2>4, <2>7 DEF ServerTypeOK
  <2>9. QED
    BY <2>1, <2>4, <2>5, <2>6, <2>8 DEF ServerTypeOK, threadVars, queryVars, peerVars
<1>5. QED
  BY <1>1, <1>2, <1>3, <1>4 DEF TcpThread, Handle

(* The mDNS thread keeps them. *)
LEMMA MdnsTypes ==
  ASSUME ServerTypeOK, LifeInv, MdnsThread \/ MdnsFails
  PROVE  ServerTypeOK'
<1>1. mdns' \in MdnsStates /\ wsa' \in Nat
  BY DEF MdnsThread, MdnsStartup, MdnsSockets, MdnsSelect, MdnsFails, MdnsStates, ServerTypeOK,
         LifeInv, TcpStarted, MdnsStarted
<1>2. UNCHANGED <<main, tcp, onData, stopped, terminate, queryVars, sessionVars, peerVars,
                  dead>>
  BY DEF MdnsThread, MdnsStartup, MdnsSockets, MdnsSelect, MdnsFails, Lives
<1>3. QED
  BY <1>1, <1>2 DEF ServerTypeOK, queryVars, sessionVars, peerVars

(* The main thread keeps them. *)
LEMMA MainTypes ==
  ASSUME ServerTypeOK, Main
  PROVE  ServerTypeOK'
<1>1. CASE StartMdnsThread \/ StartTcpThread \/ MakeOnData \/ Destroy \/ Destructor
  <2>1. main' \in MainStates /\ tcp' \in TcpStates /\ mdns' \in MdnsStates
    BY <1>1 DEF StartMdnsThread, StartTcpThread, MakeOnData, Destroy, Destructor, JoinTcp,
                Shutdown, JoinMdns, ServerTypeOK, MainStates, TcpStates, MdnsStates
  <2>2. onData' \in BOOLEAN /\ stopped' \in BOOLEAN /\ terminate' \in BOOLEAN
    BY <1>1 DEF StartMdnsThread, StartTcpThread, MakeOnData, Destroy, Destructor, JoinTcp,
                Shutdown, JoinMdns, ServerTypeOK
  <2>3. UNCHANGED <<wsa, queryVars, sessionVars, peerVars, dead>>
    BY <1>1 DEF StartMdnsThread, StartTcpThread, MakeOnData, Destroy, Destructor, JoinTcp,
                Shutdown, JoinMdns, Lives
  <2>4. QED
    BY <2>1, <2>2, <2>3 DEF ServerTypeOK, queryVars, sessionVars, peerVars
<1>2. CASE OpenQuery
  BY <1>2 DEF OpenQuery, ServerTypeOK, MainStates, Lives, MayDie, sessionVars, peerVars
<1>3. CASE Answer
  BY <1>3 DEF Answer, ServerTypeOK, Lives, MayDie, threadVars, sessionVars, peerVars
<1>4. CASE EndQuery
  <2>1. client' \in BOOLEAN
    BY <1>4 DEF EndQuery
  <2>2. QED
    BY <1>4, <2>1 DEF EndQuery, ServerTypeOK, MainStates, Lives, sessionVars, peerVars
<1>5. QED
  BY <1>1, <1>2, <1>3, <1>4 DEF Main

(* So do the peers and the completions. *)
LEMMA NetworkTypes ==
  ASSUME ServerTypeOK, Completions \/ Network
  PROVE  ServerTypeOK'
<1>1. ASSUME NEW p \in Peers, ReadCompletes(p)
      PROVE  ServerTypeOK'
  <2>1. PICK k \in 0 .. unread[p] :
          /\ ready' = Append(ready, [op |-> "read", peer |-> p, pieces |-> k])
          /\ unread' = [unread EXCEPT ![p] = @ - k]
    BY <1>1 DEF ReadCompletes
  <2>2. k \in Nat /\ unread[p] - k \in Nat
    BY DEF ServerTypeOK
  <2>3. [op |-> "read", peer |-> p, pieces |-> k] \in Handlers
    BY <2>2 DEF Handlers
  <2>4. ready' \in Seq(Handlers)
    BY <2>1, <2>3 DEF ServerTypeOK
  <2>5. unread' \in [Peers -> Nat]
    BY <2>1, <2>2 DEF ServerTypeOK
  <2>6. QED
    BY <1>1, <2>4, <2>5 DEF ReadCompletes, ServerTypeOK, Lives, threadVars, queryVars
<1>2. CASE AcceptCompletes
  <2>1. Head(backlog) \in Peers /\ backlog' \in Seq(Peers)
    BY <1>2 DEF AcceptCompletes, ServerTypeOK
  <2>2. [op |-> "accept", peer |-> Head(backlog), pieces |-> 0] \in Handlers
    BY <2>1 DEF Handlers
  <2>3. ready' \in Seq(Handlers)
    BY <1>2, <2>2 DEF AcceptCompletes, ServerTypeOK
  <2>4. QED
    BY <1>2, <2>1, <2>3 DEF AcceptCompletes, ServerTypeOK, Lives, threadVars, queryVars
<1>3. CASE AcceptFails
  <2>1. Failed \in Handlers
    BY DEF Handlers
  <2>2. ready' \in Seq(Handlers) /\ failures' \in Nat /\ accepting' \in BOOLEAN
    <3>1. /\ ready' = Append(ready, Failed) /\ failures' = failures + 1
          /\ accepting' = FALSE
      BY <1>3 DEF AcceptFails
    <3>2. ready' \in Seq(Handlers)
      BY <2>1, <3>1 DEF ServerTypeOK
    <3>3. failures' \in Nat
      BY <3>1 DEF ServerTypeOK
    <3>4. QED
      BY <3>1, <3>2, <3>3
  <2>3. backlog' \in Seq(Peers) /\ lost' \subseteq Peers
    <3>1. backlog # << >> => Head(backlog) \in Peers /\ Tail(backlog) \in Seq(Peers)
      BY DEF ServerTypeOK
    <3>2. CASE UNCHANGED <<backlog, lost>>
      BY <3>2 DEF ServerTypeOK
    <3>3. CASE /\ backlog # << >>
               /\ backlog' = Tail(backlog) /\ lost' = lost \cup {Head(backlog)}
      BY <3>1, <3>3 DEF ServerTypeOK
    <3>4. QED
      BY <1>3, <3>2, <3>3 DEF AcceptFails
  <2>4. QED
    BY <1>3, <2>2, <2>3 DEF AcceptFails, ServerTypeOK, Lives, threadVars, queryVars
<1>4. CASE AcceptAborted
  <2>1. backlog' \in Seq(Peers)
    BY <1>4 DEF AcceptAborted, ServerTypeOK
  <2>2. QED
    BY <1>4, <2>1 DEF AcceptAborted, ServerTypeOK, Lives, threadVars, queryVars, sessionVars
<1>5. ASSUME NEW p \in Peers, Connect(p) \/ SendPiece(p) \/ Close(p) \/ Reset(p)
      PROVE  ServerTypeOK'
  <2>1. CASE Connect(p)
    BY <1>5, <2>1 DEF Connect, ServerTypeOK, Lives, threadVars, queryVars, sessionVars
  <2>2. CASE SendPiece(p)
    <3>1. sent[p] + 1 \in Nat /\ unread[p] + 1 \in Nat
      BY DEF ServerTypeOK
    <3>2. sent' \in [Peers -> Nat] /\ unread' \in [Peers -> Nat]
      BY <2>2, <3>1 DEF SendPiece, ServerTypeOK
    <3>3. QED
      BY <2>2, <3>2 DEF SendPiece, ServerTypeOK, Lives, threadVars, queryVars, sessionVars
  <2>3. CASE Close(p)
    BY <1>5, <2>3 DEF Close, ServerTypeOK, Lives, threadVars, queryVars, sessionVars
  <2>4. CASE Reset(p)
    BY <1>5, <2>4 DEF Reset, ServerTypeOK, Lives, threadVars, queryVars, sessionVars
  <2>5. QED
    BY <1>5, <2>1, <2>2, <2>3, <2>4
<1>6. QED
  BY <1>1, <1>2, <1>3, <1>4, <1>5 DEF Completions, Network

(* Together. *)
LEMMA TypesStep ==
  ASSUME ServerTypeOK, LifeInv, [ServerNext]_serverVars
  PROVE  ServerTypeOK'
<1>1. CASE UNCHANGED serverVars
  BY <1>1 DEF serverVars, threadVars, queryVars, sessionVars, peerVars, ServerTypeOK
<1>2. QED
  BY <1>1, TcpTypes, MdnsTypes, MainTypes, NetworkTypes DEF ServerNext

(* The first state has them. *)
LEMMA TypesInit ==
  ASSUME ServerInit
  PROVE  ServerTypeOK
<1>1. ready \in Seq(Handlers) /\ backlog \in Seq(Peers)
  BY DEF ServerInit
<1>2. sent \in [Peers -> Nat] /\ unread \in [Peers -> Nat] /\ taken \in [Peers -> Nat]
  BY DEF ServerInit
<1>3. QED
  BY <1>1, <1>2 DEF ServerInit, ServerTypeOK, MainStates, TcpStates, MdnsStates

(* The Server's variables keep their types, for any peers, pieces and      *)
(* answers; a WSACleanup never comes without its WSAStartup.               *)
THEOREM ServerTypeCorrect == ServerSpec => []ServerTypeOK
BY LifeInit, LifeStep, TypesInit, TypesStep, PTL DEF ServerSpec
-----------------------------------------------------------------------------
(* Queues without doubles. *)

(* Appending what a queue does not hold yet. *)
LEMMA AppendedOnce ==
  ASSUME NEW S, NEW s \in Seq(S), NEW e \in S
  PROVE  /\ Range(Append(s, e)) = Range(s) \cup {e}
         /\ IsInjective(s) /\ e \notin Range(s) => IsInjective(Append(s, e))
<1> DEFINE t == Append(s, e)
<1>1. /\ Len(s) \in Nat /\ DOMAIN s = 1 .. Len(s) /\ DOMAIN t = 1 .. Len(s) + 1
      /\ t[Len(s) + 1] = e
      /\ \A i \in 1 .. Len(s) : t[i] = s[i]
  OBVIOUS
<1> HIDE DEF t
<1>2. Range(t) = Range(s) \cup {e}
  <2>1. ASSUME NEW x \in Range(t)
        PROVE  x \in Range(s) \cup {e}
    BY <1>1, <2>1 DEF Range
  <2>2. ASSUME NEW x \in Range(s)
        PROVE  x \in Range(t)
    BY <1>1, <2>2 DEF Range
  <2>3. e \in Range(t)
    BY <1>1 DEF Range
  <2>4. QED
    BY <2>1, <2>2, <2>3
<1>3. IsInjective(s) /\ e \notin Range(s) => IsInjective(t)
  BY <1>1 DEF Range, IsInjective
<1>4. QED
  BY <1>2, <1>3 DEF t

(* Taking the first of a queue takes all there is of it. *)
LEMMA FirstTaken ==
  ASSUME NEW S, NEW s \in Seq(S), s # << >>, IsInjective(s)
  PROVE  /\ Head(s) \in Range(s)
         /\ Range(Tail(s)) = Range(s) \ {Head(s)}
         /\ IsInjective(Tail(s))
<1> DEFINE t == Tail(s)
<1>1. /\ Len(s) \in Nat /\ 1 <= Len(s) /\ DOMAIN s = 1 .. Len(s) /\ DOMAIN t = 1 .. Len(s) - 1
      /\ Head(s) = s[1]
      /\ \A i \in 1 .. Len(s) - 1 : t[i] = s[i + 1]
  OBVIOUS
<1> HIDE DEF t
<1>2. Range(t) = Range(s) \ {Head(s)}
  <2>1. ASSUME NEW x \in Range(t)
        PROVE  x \in Range(s) \ {Head(s)}
    <3>1. PICK i \in 1 .. Len(s) - 1 : x = s[i + 1]
      BY <1>1 DEF Range
    <3>2. i + 1 \in 1 .. Len(s) /\ 1 \in 1 .. Len(s) /\ i + 1 # 1
      BY <1>1
    <3>3. s[i + 1] # s[1]
      BY <1>1, <3>2 DEF IsInjective
    <3>4. QED
      BY <1>1, <3>1, <3>2, <3>3 DEF Range
  <2>2. ASSUME NEW x \in Range(s), x # Head(s)
        PROVE  x \in Range(t)
    <3>1. PICK i \in 1 .. Len(s) : x = s[i]
      BY <1>1 DEF Range
    <3>2. i - 1 \in 1 .. Len(s) - 1 /\ (i - 1) + 1 = i
      BY <1>1, <2>2, <3>1
    <3>3. t[i - 1] = x
      BY <1>1, <3>1, <3>2
    <3>4. QED
      BY <1>1, <3>2, <3>3 DEF Range
  <2>3. QED
    BY <2>1, <2>2
<1>3. IsInjective(t)
  BY <1>1 DEF IsInjective
<1>4. Head(s) \in Range(s)
  BY <1>1 DEF Range
<1>5. QED
  BY <1>2, <1>3, <1>4 DEF t

(* CompletedOf is a queue of peers and of nobody, and moves with ready. *)
Whom == Peers \cup {Nobody}

LEMMA CompletedQueue ==
  ASSUME ready \in Seq(Handlers)
  PROVE  /\ CompletedOf \in Seq(Whom) /\ Len(CompletedOf) = Len(ready)
         /\ DOMAIN CompletedOf = DOMAIN ready
         /\ \A i \in DOMAIN ready : CompletedOf[i] = ready[i].peer
<1>1. Len(ready) \in Nat /\ DOMAIN ready = 1 .. Len(ready)
  OBVIOUS
<1>2. ASSUME NEW i \in DOMAIN ready
      PROVE  ready[i].peer \in Whom
  <2>1. ready[i] \in Handlers
    OBVIOUS
  <2>2. QED
    BY <2>1, HandlerPeers DEF Whom
<1>3. CompletedOf \in [1 .. Len(ready) -> Whom]
  BY <1>1, <1>2 DEF CompletedOf
<1>4. QED
  BY <1>1, <1>3 DEF CompletedOf

LEMMA CompletedAppended ==
  ASSUME ready \in Seq(Handlers), NEW h \in Handlers, ready' = Append(ready, h)
  PROVE  CompletedOf' = Append(CompletedOf, h.peer)
<1>1. /\ Len(ready) \in Nat /\ DOMAIN ready = 1 .. Len(ready) /\ DOMAIN ready' = 1 .. Len(ready) + 1
      /\ ready'[Len(ready) + 1] = h
      /\ \A i \in 1 .. Len(ready) : ready'[i] = ready[i]
  OBVIOUS
<1>2. CompletedOf' = [i \in 1 .. Len(ready) + 1 |-> ready'[i].peer]
  BY <1>1 DEF CompletedOf
<1>3. h.peer \in Whom
  BY HandlerPeers DEF Whom
<1> DEFINE c == Append(CompletedOf, h.peer)
<1>4. /\ c = [i \in 1 .. Len(ready) + 1 |-> c[i]]
      /\ c[Len(ready) + 1] = h.peer
      /\ \A i \in 1 .. Len(ready) : c[i] = CompletedOf[i]
  BY <1>1, <1>3, CompletedQueue
<1> HIDE DEF c
<1>5. ASSUME NEW i \in 1 .. Len(ready) + 1
      PROVE  c[i] = ready'[i].peer
  <2>1. CASE i \in 1 .. Len(ready)
    <3>1. c[i] = CompletedOf[i] /\ ready'[i] = ready[i] /\ i \in DOMAIN ready
      BY <1>1, <1>4, <2>1
    <3>2. CompletedOf[i] = ready[i].peer
      BY <3>1, CompletedQueue
    <3>3. QED
      BY <3>1, <3>2
  <2>2. CASE i = Len(ready) + 1
    BY <1>1, <1>4, <2>2
  <2>3. QED
    BY <1>1, <2>1, <2>2
<1>6. QED
  BY <1>2, <1>4, <1>5 DEF c

LEMMA CompletedTaken ==
  ASSUME ready \in Seq(Handlers), ready # << >>, ready' = Tail(ready)
  PROVE  /\ CompletedOf # << >> /\ Head(CompletedOf) = Head(ready).peer
         /\ CompletedOf' = Tail(CompletedOf)
<1>1. /\ Len(ready) \in Nat /\ 1 <= Len(ready) /\ DOMAIN ready = 1 .. Len(ready)
      /\ DOMAIN ready' = 1 .. Len(ready) - 1
      /\ Head(ready) = ready[1]
      /\ \A i \in 1 .. Len(ready) - 1 : ready'[i] = ready[i + 1] /\ i + 1 \in 1 .. Len(ready)
  OBVIOUS
<1>2. CompletedOf' = [i \in 1 .. Len(ready) - 1 |-> ready'[i].peer]
  BY <1>1 DEF CompletedOf
<1> DEFINE c == Tail(CompletedOf)
<1>3. CompletedOf # << >> /\ Head(CompletedOf) = CompletedOf[1]
  BY <1>1, CompletedQueue
<1>4. /\ c = [i \in 1 .. Len(ready) - 1 |-> c[i]]
      /\ \A i \in 1 .. Len(ready) - 1 : c[i] = CompletedOf[i + 1]
  <2>1. CompletedOf \in Seq(Whom) /\ Len(CompletedOf) = Len(ready)
    BY CompletedQueue
  <2>2. c \in Seq(Whom) /\ Len(c) = Len(ready) - 1
    BY <1>1, <1>3, <2>1
  <2> HIDE DEF c
  <2>3. c = [i \in 1 .. Len(ready) - 1 |-> c[i]]
    BY <2>2
  <2>4. \A i \in 1 .. Len(ready) - 1 : c[i] = CompletedOf[i + 1]
    BY <1>1, <1>3, <2>1 DEF c
  <2>5. QED
    BY <2>3, <2>4
<1>5. ASSUME NEW i \in 1 .. Len(ready) - 1
      PROVE  c[i] = ready'[i].peer
  <2>1. c[i] = CompletedOf[i + 1] /\ ready'[i] = ready[i + 1] /\ i + 1 \in DOMAIN ready
    BY <1>1, <1>4
  <2>2. CompletedOf[i + 1] = ready[i + 1].peer
    BY <2>1, CompletedQueue
  <2>3. QED
    BY <2>1, <2>2
<1>6. QED
  BY <1>1, <1>2, <1>3, <1>4, <1>5, CompletedQueue DEF c
-----------------------------------------------------------------------------
(* One operation each.                                                     *)

(* Before run() nothing has been begun; for the rest the property itself   *)
(* is inductive: each action that begins an operation takes the last one   *)
(* of the same socket away.                                                *)
OperationsInv ==
  /\ tcp \in {"none", "startup", "bind", "copy"} => ~accepting /\ ready = << >>
  /\ OneOperationEach

(* How ready moves, place by place. *)
LEMMA ReadyAppended ==
  ASSUME ready \in Seq(Handlers), NEW h \in Handlers, ready' = Append(ready, h)
  PROVE  \E n : /\ n \notin DOMAIN ready /\ DOMAIN ready' = DOMAIN ready \cup {n}
               /\ ready'[n] = h /\ \A i \in DOMAIN ready : ready'[i] = ready[i]
<1>1. /\ Len(ready) \in Nat /\ DOMAIN ready = 1 .. Len(ready) /\ DOMAIN ready' = 1 .. Len(ready) + 1
      /\ ready'[Len(ready) + 1] = h
      /\ \A i \in 1 .. Len(ready) : ready'[i] = ready[i]
  OBVIOUS
<1>2. Len(ready) + 1 \notin DOMAIN ready /\ DOMAIN ready' = DOMAIN ready \cup {Len(ready) + 1}
  BY <1>1
<1>3. QED
  BY <1>1, <1>2

LEMMA ReadyTaken ==
  ASSUME ready \in Seq(Handlers), ready # << >>, ready' = Tail(ready)
  PROVE  /\ 1 \in DOMAIN ready /\ Head(ready) = ready[1] /\ DOMAIN ready \subseteq Nat
         /\ \A i \in DOMAIN ready' : /\ i + 1 \in DOMAIN ready /\ i + 1 # 1 /\ i \in Nat
                                    /\ ready'[i] = ready[i + 1]
         /\ \A i \in DOMAIN ready : i # 1 => i - 1 \in DOMAIN ready' /\ ready'[i - 1] = ready[i]
OBVIOUS

(* Who an operation is handed to, and who is left. *)
LEMMA PeerOfFirst ==
  ASSUME ServerTypeOK, EachPeerOnce, ready # << >>, ready' = Tail(ready)
  PROVE  /\ Head(ready).peer \in Range(CompletedOf)
         /\ Range(CompletedOf)' = Range(CompletedOf) \ {Head(ready).peer}
         /\ IsInjective(CompletedOf)'
<1>1. ready \in Seq(Handlers)
  BY DEF ServerTypeOK
<1>2. CompletedOf \in Seq(Whom)
  BY <1>1, CompletedQueue
<1>3. /\ CompletedOf # << >> /\ Head(CompletedOf) = Head(ready).peer
      /\ CompletedOf' = Tail(CompletedOf)
  BY <1>1, CompletedTaken
<1>4. IsInjective(CompletedOf)
  BY DEF EachPeerOnce
<1>5. /\ Head(CompletedOf) \in Range(CompletedOf)
      /\ Range(Tail(CompletedOf)) = Range(CompletedOf) \ {Head(CompletedOf)}
      /\ IsInjective(Tail(CompletedOf))
  BY <1>2, <1>3, <1>4, FirstTaken
<1>6. /\ Range(CompletedOf)' = Range(CompletedOf')
      /\ IsInjective(CompletedOf)' <=> IsInjective(CompletedOf')
  BY DEF Range, IsInjective
<1>7. QED
  BY <1>3, <1>5, <1>6

LEMMA PeerOfLast ==
  ASSUME ServerTypeOK, EachPeerOnce, NEW h \in Handlers, ready' = Append(ready, h),
         h.peer \notin Range(CompletedOf)
  PROVE  /\ Range(CompletedOf)' = Range(CompletedOf) \cup {h.peer}
         /\ IsInjective(CompletedOf)'
<1>1. ready \in Seq(Handlers)
  BY DEF ServerTypeOK
<1>2. CompletedOf \in Seq(Whom) /\ h.peer \in Whom
  BY <1>1, CompletedQueue, HandlerPeers DEF Whom
<1>3. CompletedOf' = Append(CompletedOf, h.peer)
  BY <1>1, CompletedAppended
<1>4. IsInjective(CompletedOf)
  BY DEF EachPeerOnce
<1>5. /\ Range(Append(CompletedOf, h.peer)) = Range(CompletedOf) \cup {h.peer}
      /\ IsInjective(Append(CompletedOf, h.peer))
  BY <1>2, <1>4, AppendedOnce
<1>6. /\ Range(CompletedOf)' = Range(CompletedOf')
      /\ IsInjective(CompletedOf)' <=> IsInjective(CompletedOf')
  BY DEF Range, IsInjective
<1>7. QED
  BY <1>3, <1>5, <1>6

(* The handlers: the peer the first one is about, if any, goes on to be    *)
(* read, and with an accept, successful or not, the next one is begun.     *)
LEMMA HandleOperations ==
  ASSUME ServerTypeOK, OperationsInv, Handle
  PROVE  OperationsInv'
<1>1. /\ Running /\ ready # << >> /\ ready' = Tail(ready)
      /\ UNCHANGED <<tcp, backlog, joined, lost>>
  BY DEF Handle, HandleAccept, HandleRead, threadVars, peerVars
<1>2. ready \in Seq(Handlers)
  BY DEF ServerTypeOK
<1>3. /\ 1 \in DOMAIN ready /\ Head(ready) = ready[1] /\ DOMAIN ready \subseteq Nat
      /\ \A i \in DOMAIN ready' : /\ i + 1 \in DOMAIN ready /\ i + 1 # 1 /\ i \in Nat
                                 /\ ready'[i] = ready[i + 1]
      /\ \A i \in DOMAIN ready : i # 1 => i - 1 \in DOMAIN ready' /\ ready'[i - 1] = ready[i]
  BY <1>1, <1>2, ReadyTaken
<1>4. EachPeerOnce /\ OneAccept
  BY DEF OperationsInv, OneOperationEach
<1>5. reading' = reading \cup ({Head(ready).peer} \ {Nobody})
  <2>1. CASE HandleAccept
    BY <2>1 DEF HandleAccept
  <2>2. CASE HandleRead
    <3>1. Head(ready) \in Handlers /\ Head(ready).op = "read"
      BY <1>1, <1>2, <2>2 DEF HandleRead
    <3>2. Head(ready).peer \in Peers
      BY <3>1, HandlerPeers
    <3>3. reading' = reading \cup {Head(ready).peer}
      BY <2>2 DEF HandleRead
    <3>4. QED
      BY <3>2, <3>3, ServerAssumption
  <2>3. QED
    BY <2>1, <2>2 DEF Handle
<1>6. EachPeerOnce'
  <2>1. /\ Head(ready).peer \in Range(CompletedOf)
        /\ Range(CompletedOf)' = Range(CompletedOf) \ {Head(ready).peer}
        /\ IsInjective(CompletedOf)'
    BY <1>1, <1>4, PeerOfFirst
  <2>2. Range(backlog)' = Range(backlog) /\ IsInjective(backlog)'
    BY <1>1, <1>4 DEF EachPeerOnce, Range, IsInjective
  <2>3. Nobody \notin joined
    BY ServerAssumption DEF ServerTypeOK
  <2>4. QED
    BY <1>1, <1>4, <1>5, <2>1, <2>2, <2>3 DEF EachPeerOnce
<1>7. OneAccept'
  <2>1. \A i \in AcceptsReady' : i + 1 \in AcceptsReady /\ i \in Nat /\ i + 1 # 1
    BY <1>3 DEF AcceptsReady
  <2>2. \A i \in AcceptsReady : i # 1 => i - 1 \in AcceptsReady'
    BY <1>3 DEF AcceptsReady
  <2>3. tcp = "run" /\ tcp' = "run"
    BY <1>1 DEF Running
  <2>4. \A i, j \in AcceptsReady' : i = j
    BY <1>4, <2>1 DEF OneAccept
  <2>5. accepting' <=> AcceptsReady' = {}
    <3>1. CASE HandleAccept
      <4>1. 1 \in AcceptsReady /\ accepting'
        BY <1>3, <3>1 DEF HandleAccept, AcceptsReady
      <4>2. QED
        BY <1>4, <2>1, <4>1 DEF OneAccept
    <3>2. CASE HandleRead
      <4>1. 1 \notin AcceptsReady /\ (accepting' <=> accepting)
        BY <1>3, <3>2 DEF HandleRead, AcceptsReady
      <4>2. QED
        BY <1>4, <2>1, <2>2, <2>3, <4>1 DEF OneAccept
    <3>3. QED
      BY <3>1, <3>2 DEF Handle
  <2>6. QED
    BY <2>4, <2>5 DEF OneAccept
<1>8. QED
  BY <1>1, <1>6, <1>7 DEF OperationsInv, OneOperationEach, Running

(* A completed read: the session is no longer read from, and waits.        *)
LEMMA ReadCompletesOperations ==
  ASSUME ServerTypeOK, OperationsInv, NEW p \in Peers, ReadCompletes(p)
  PROVE  OperationsInv'
<1>1. PICK k \in 0 .. unread[p] :
        ready' = Append(ready, [op |-> "read", peer |-> p, pieces |-> k])
  BY DEF ReadCompletes
<1> DEFINE h == [op |-> "read", peer |-> p, pieces |-> k]
<1>2. /\ Running /\ p \in reading /\ ready' = Append(ready, h) /\ reading' = reading \ {p}
      /\ UNCHANGED <<tcp, accepting, backlog, joined, lost>>
  BY <1>1 DEF ReadCompletes, threadVars
<1>3. h \in Handlers /\ h.op = "read" /\ h.peer = p
  BY DEF Handlers, ServerTypeOK
<1> HIDE DEF h
<1>4. ready \in Seq(Handlers)
  BY DEF ServerTypeOK
<1>5. PICK n : /\ n \notin DOMAIN ready /\ DOMAIN ready' = DOMAIN ready \cup {n}
               /\ ready'[n] = h /\ \A i \in DOMAIN ready : ready'[i] = ready[i]
  BY <1>2, <1>3, <1>4, ReadyAppended
<1>6. EachPeerOnce /\ OneAccept
  BY DEF OperationsInv, OneOperationEach
<1>7. EachPeerOnce'
  <2>1. h.peer \notin Range(CompletedOf)
    BY <1>2, <1>3, <1>6 DEF EachPeerOnce
  <2>2. Range(CompletedOf)' = Range(CompletedOf) \cup {p} /\ IsInjective(CompletedOf)'
    BY <1>2, <1>3, <1>6, <2>1, PeerOfLast
  <2>3. Range(backlog)' = Range(backlog) /\ IsInjective(backlog)'
    BY <1>2, <1>6 DEF EachPeerOnce, Range, IsInjective
  <2>4. QED
    BY <1>2, <1>6, <2>2, <2>3 DEF EachPeerOnce
<1>8. OneAccept'
  <2>1. AcceptsReady' = AcceptsReady
    BY <1>3, <1>5 DEF AcceptsReady
  <2>2. QED
    BY <1>2, <1>6, <2>1 DEF OneAccept
<1>9. QED
  BY <1>2, <1>7, <1>8 DEF OperationsInv, OneOperationEach, Running

(* While an accept is under way no other is among the completed ones.  So  *)
(* one that completes now, for a peer or for nobody, is the only one.      *)
LEMMA AcceptAppended ==
  ASSUME ServerTypeOK, OperationsInv, Running, accepting, NEW h \in Handlers,
         h.op = "accept", ready' = Append(ready, h), accepting' = FALSE
  PROVE  OneAccept'
<1>1. ready \in Seq(Handlers)
  BY DEF ServerTypeOK
<1>2. PICK n : /\ n \notin DOMAIN ready /\ DOMAIN ready' = DOMAIN ready \cup {n}
               /\ ready'[n] = h /\ \A i \in DOMAIN ready : ready'[i] = ready[i]
  BY <1>1, ReadyAppended
<1>3. AcceptsReady = {}
  BY DEF OperationsInv, OneOperationEach, OneAccept, Running
<1>4. AcceptsReady' = {n}
  BY <1>2, <1>3 DEF AcceptsReady
<1>5. QED
  BY <1>4 DEF OneAccept

(* What leaves the backlog. *)
LEMMA BacklogTaken ==
  ASSUME ServerTypeOK, EachPeerOnce, backlog # << >>, backlog' = Tail(backlog)
  PROVE  /\ Head(backlog) \in Peers /\ Head(backlog) \in Range(backlog)
         /\ Range(backlog)' = Range(backlog) \ {Head(backlog)}
         /\ IsInjective(backlog)'
<1>1. backlog \in Seq(Peers) /\ IsInjective(backlog)
  BY DEF ServerTypeOK, EachPeerOnce
<1>2. Head(backlog) \in Peers
  BY <1>1
<1>3. /\ Head(backlog) \in Range(backlog) /\ IsInjective(Tail(backlog))
      /\ Range(Tail(backlog)) = Range(backlog) \ {Head(backlog)}
  BY <1>1, FirstTaken
<1>4. QED
  BY <1>2, <1>3 DEF Range, IsInjective

(* A completed accept takes the first of the backlog.                      *)
LEMMA AcceptCompletesOperations ==
  ASSUME ServerTypeOK, OperationsInv, AcceptCompletes
  PROVE  OperationsInv'
<1> DEFINE h == [op |-> "accept", peer |-> Head(backlog), pieces |-> 0]
<1>1. /\ Running /\ accepting /\ backlog # << >> /\ ready' = Append(ready, h)
      /\ accepting' = FALSE /\ backlog' = Tail(backlog)
      /\ UNCHANGED <<tcp, reading, joined, lost>>
  BY DEF AcceptCompletes, threadVars
<1>2. EachPeerOnce
  BY DEF OperationsInv, OneOperationEach
<1>3. /\ Head(backlog) \in Peers /\ Head(backlog) \in Range(backlog)
      /\ Range(backlog)' = Range(backlog) \ {Head(backlog)} /\ IsInjective(backlog)'
  BY <1>1, <1>2, BacklogTaken
<1>4. h \in Handlers /\ h.op = "accept" /\ h.peer = Head(backlog)
  BY <1>3 DEF Handlers
<1> HIDE DEF h
<1>5. EachPeerOnce'
  <2>1. h.peer \notin Range(CompletedOf)
    BY <1>2, <1>3, <1>4 DEF EachPeerOnce
  <2>2. Range(CompletedOf)' = Range(CompletedOf) \cup {Head(backlog)} /\ IsInjective(CompletedOf)'
    BY <1>1, <1>2, <1>4, <2>1, PeerOfLast
  <2>3. QED
    BY <1>1, <1>2, <1>3, <2>2 DEF EachPeerOnce
<1>6. OneAccept'
  BY <1>1, <1>4, AcceptAppended
<1>7. QED
  BY <1>1, <1>5, <1>6 DEF OperationsInv, OneOperationEach, Running

(* A failed accept is nobody's; whom it gives up is in no place any more.  *)
LEMMA AcceptFailsOperations ==
  ASSUME ServerTypeOK, OperationsInv, AcceptFails
  PROVE  OperationsInv'
<1>1. /\ Running /\ accepting /\ ready' = Append(ready, Failed) /\ accepting' = FALSE
      /\ UNCHANGED <<tcp, reading, joined>>
  BY DEF AcceptFails, threadVars
<1>2. EachPeerOnce /\ OneAccept
  BY DEF OperationsInv, OneOperationEach
<1>3. Failed \in Handlers /\ Failed.op = "accept" /\ Failed.peer = Nobody
  BY DEF Handlers, Failed
<1>4. Nobody \notin Range(CompletedOf)
  <2>1. ready \in Seq(Handlers)
    BY DEF ServerTypeOK
  <2>2. SUFFICES ASSUME NEW i \in DOMAIN ready
                 PROVE  ready[i].peer # Nobody
    BY <2>1, CompletedQueue DEF Range
  <2>3. ready[i] \in Handlers
    BY <2>1
  <2>4. i \notin AcceptsReady
    BY <1>1, <1>2 DEF OneAccept, Running
  <2>5. ready[i] # Failed
    BY <2>4 DEF AcceptsReady, Failed
  <2>6. ready[i] \in [op : {"accept", "read"}, peer : Peers, pieces : Nat]
    BY <2>3, <2>5 DEF Handlers
  <2>7. QED
    BY <2>6, ServerAssumption
<1>5. EachPeerOnce'
  <2>1. Range(CompletedOf)' = Range(CompletedOf) \cup {Nobody} /\ IsInjective(CompletedOf)'
    BY <1>1, <1>2, <1>3, <1>4, PeerOfLast
  <2>2. Nobody \notin reading /\ Nobody \notin Range(backlog)
    <3>1. Range(backlog) \subseteq Peers
      BY DEF ServerTypeOK, Range
    <3>2. QED
      BY <3>1, ServerAssumption DEF ServerTypeOK
  <2>3. CASE UNCHANGED <<backlog, lost>>
    <3>1. Range(backlog)' = Range(backlog) /\ IsInjective(backlog)'
      BY <1>2, <2>3 DEF EachPeerOnce, Range, IsInjective
    <3>2. QED
      BY <1>1, <1>2, <2>1, <2>2, <2>3, <3>1 DEF EachPeerOnce
  <2>4. CASE /\ backlog # << >>
             /\ backlog' = Tail(backlog) /\ lost' = lost \cup {Head(backlog)}
    <3>1. /\ Range(backlog)' = Range(backlog) \ {Head(backlog)} /\ IsInjective(backlog)'
          /\ Head(backlog) \in Range(backlog)
      BY <1>2, <2>4, BacklogTaken
    <3>2. QED
      BY <1>1, <1>2, <2>1, <2>2, <2>4, <3>1 DEF EachPeerOnce
  <2>5. QED
    BY <2>3, <2>4 DEF AcceptFails
<1>6. OneAccept'
  BY <1>1, <1>3, AcceptAppended
<1>7. QED
  BY <1>1, <1>5, <1>6 DEF OperationsInv, OneOperationEach, Running

(* The accept goes on; who leaves the backlog was cut off.                 *)
LEMMA AcceptAbortedOperations ==
  ASSUME ServerTypeOK, OperationsInv, AcceptAborted
  PROVE  OperationsInv'
<1>1. /\ backlog # << >> /\ Head(backlog) \in lost /\ backlog' = Tail(backlog)
      /\ UNCHANGED <<tcp, accepting, ready, reading, joined, lost>>
  BY DEF AcceptAborted, threadVars, sessionVars
<1>2. EachPeerOnce /\ OneAccept
  BY DEF OperationsInv, OneOperationEach
<1>3. Range(backlog)' = Range(backlog) \ {Head(backlog)} /\ IsInjective(backlog)'
  BY <1>1, <1>2, BacklogTaken
<1>4. Range(CompletedOf)' = Range(CompletedOf) /\ IsInjective(CompletedOf)'
  BY <1>1, <1>2 DEF EachPeerOnce, Range, IsInjective, CompletedOf
<1>5. EachPeerOnce'
  BY <1>1, <1>2, <1>3, <1>4 DEF EachPeerOnce
<1>6. OneAccept'
  BY <1>1, <1>2 DEF OneAccept, AcceptsReady
<1>7. QED
  BY <1>1, <1>5, <1>6 DEF OperationsInv, OneOperationEach

(* A peer that connects is new, and goes to the backlog; that it sends,    *)
(* closes or is cut off moves it from no place.                            *)
LEMMA NetworkOperations ==
  ASSUME ServerTypeOK, OperationsInv, NEW p \in Peers,
         Connect(p) \/ SendPiece(p) \/ Close(p) \/ Reset(p)
  PROVE  OperationsInv'
<1>1. EachPeerOnce /\ OneAccept
  BY DEF OperationsInv, OneOperationEach
<1>2. UNCHANGED <<tcp, accepting, ready, reading>>
  BY DEF Connect, SendPiece, Close, Reset, threadVars, sessionVars
<1>3. OneAccept'
  BY <1>1, <1>2 DEF OneAccept, AcceptsReady
<1>4. Range(CompletedOf)' = Range(CompletedOf) /\ IsInjective(CompletedOf)'
  BY <1>1, <1>2 DEF EachPeerOnce, Range, IsInjective, CompletedOf
<1>5. EachPeerOnce'
  <2>1. CASE Connect(p)
    <3>1. Range(backlog) \subseteq Peers
      BY DEF ServerTypeOK, Range
    <3>2. p \notin Range(backlog)
      BY <1>1, <2>1, ServerAssumption DEF EachPeerOnce, Connect
    <3>3. backlog \in Seq(Peers) /\ backlog' = Append(backlog, p) /\ IsInjective(backlog)
      BY <1>1, <2>1 DEF EachPeerOnce, Connect, ServerTypeOK
    <3>4. Range(Append(backlog, p)) = Range(backlog) \cup {p} /\ IsInjective(Append(backlog, p))
      BY <3>2, <3>3, AppendedOnce
    <3>5. Range(backlog)' = Range(backlog) \cup {p} /\ IsInjective(backlog)'
      BY <3>3, <3>4 DEF Range, IsInjective
    <3>6. joined' = joined \cup {p} /\ p \notin joined /\ lost' = lost
      BY <2>1 DEF Connect
    <3>7. p # Nobody
      BY ServerAssumption
    <3>8. QED
      BY <1>1, <1>2, <1>4, <3>5, <3>6, <3>7 DEF EachPeerOnce
  <2>2. CASE SendPiece(p) \/ Close(p) \/ Reset(p)
    <3>1. UNCHANGED <<backlog, joined>> /\ lost \subseteq lost'
      BY <2>2 DEF SendPiece, Close, Reset
    <3>2. Range(backlog)' = Range(backlog) /\ IsInjective(backlog)'
      BY <1>1, <3>1 DEF EachPeerOnce, Range, IsInjective
    <3>3. QED
      BY <1>1, <1>2, <1>4, <3>1, <3>2 DEF EachPeerOnce
  <2>3. QED
    BY <2>1, <2>2
<1>6. QED
  BY <1>2, <1>3, <1>5 DEF OperationsInv, OneOperationEach

(* Every step.  The other steps of the threads begin and end no operation, *)
(* but for the first accept and the end of run().                          *)
LEMMA OperationsStep ==
  ASSUME ServerTypeOK, LifeInv, OperationsInv, [ServerNext]_serverVars
  PROVE  OperationsInv'
<1>1. EachPeerOnce /\ OneAccept
  BY DEF OperationsInv, OneOperationEach
<1>2. ASSUME UNCHANGED <<ready, reading, peerVars>>
      PROVE  EachPeerOnce' /\ AcceptsReady' = AcceptsReady
  BY <1>1, <1>2 DEF EachPeerOnce, AcceptsReady, CompletedOf, Range, IsInjective, peerVars
<1>3. CASE CopyOnData
  <2>1. UNCHANGED <<ready, reading, peerVars>> /\ accepting' /\ tcp' = "run"
    BY <1>3 DEF CopyOnData
  <2>2. AcceptsReady = {}
    BY <1>3 DEF CopyOnData, OperationsInv, AcceptsReady
  <2>3. QED
    BY <1>1, <1>2, <2>1, <2>2 DEF OperationsInv, OneOperationEach, OneAccept
<1>4. CASE TcpEnds
  <2>1. UNCHANGED <<ready, reading, peerVars>> /\ tcp' = "end"
    BY <1>4 DEF TcpEnds
  <2>2. QED
    BY <1>1, <1>2, <2>1 DEF OperationsInv, OneOperationEach, OneAccept
<1>5. CASE TcpStartup \/ Bind
  <2>1. /\ UNCHANGED <<ready, reading, accepting, peerVars>> /\ tcp \in {"startup", "bind"}
        /\ tcp' # "run"
    BY <1>5 DEF TcpStartup, Bind, sessionVars
  <2>2. QED
    BY <1>1, <1>2, <2>1 DEF OperationsInv, OneOperationEach, OneAccept
<1>6. CASE StartTcpThread
  <2>1. UNCHANGED <<ready, reading, accepting, peerVars>> /\ tcp = "none" /\ tcp' = "startup"
    BY <1>6 DEF StartTcpThread, LifeInv, sessionVars
  <2>2. QED
    BY <1>1, <1>2, <2>1 DEF OperationsInv, OneOperationEach, OneAccept
<1>7. CASE UNCHANGED <<tcp, ready, reading, accepting, peerVars>>
  BY <1>1, <1>2, <1>7 DEF OperationsInv, OneOperationEach, OneAccept
<1>8. CASE MdnsThread \/ MdnsFails \/ StartMdnsThread \/ MakeOnData \/ OpenQuery \/ EndQuery
           \/ Destroy \/ Destructor \/ UNCHANGED serverVars
  <2>1. UNCHANGED <<tcp, ready, reading, accepting, peerVars>>
    BY <1>8 DEF MdnsThread, MdnsStartup, MdnsSockets, MdnsSelect, MdnsFails, StartMdnsThread,
                MakeOnData, OpenQuery, EndQuery, Destroy, Destructor, JoinTcp, Shutdown, JoinMdns,
                serverVars, threadVars, sessionVars
  <2>2. QED
    BY <1>7, <2>1
<1>9. CASE Answer
  BY <1>7, <1>9 DEF Answer, threadVars, sessionVars
<1>10. QED
  BY <1>3, <1>4, <1>5, <1>6, <1>8, <1>9, HandleOperations, ReadCompletesOperations,
     AcceptCompletesOperations, AcceptFailsOperations, AcceptAbortedOperations,
     NetworkOperations
     DEF ServerNext, Main, TcpThread, Completions, Network

(* Nothing has been begun. *)
LEMMA OperationsInit ==
  ASSUME ServerInit
  PROVE  OperationsInv
BY DEF ServerInit, OperationsInv, OneOperationEach, EachPeerOnce, OneAccept, Range,
       IsInjective, CompletedOf, AcceptsReady

(* No socket ever has two operations, and the acceptor and the sessions    *)
(* are never without theirs, however many peers connect, send, close and   *)
(* are cut off and however many accepts and reads fail, while the threads  *)
(* start and stop: the next operation is always begun by the handler of    *)
(* the last (do_accept, do_read).  A peer that is in no place was cut off, *)
(* or given up by an accept that failed.                                   *)
THEOREM OperationsOneByOne == ServerSpec => []OneOperationEach
<1>1. OperationsInv => OneOperationEach
  BY DEF OperationsInv
<1>2. QED
  BY <1>1, LifeInit, LifeStep, TypesInit, TypesStep, OperationsInit, OperationsStep, PTL
     DEF ServerSpec
=============================================================================
