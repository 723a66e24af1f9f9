------------------------------ MODULE ServeProofs ------------------------------
(***************************************************************************)
(* The discovery of a server, for every number of runs, requests and       *)
(* ports.  LiveServerAnswers is not inductive: it rests on what a server   *)
(* that is alone knows of the file at each point of its life (FileIsOwn),  *)
(* and on what a request under way knows of the server it will meet        *)
(* (RequestsKnow).                                                         *)
(***************************************************************************)
EXTENDS Serve, TLAPS

\* A request that has read the file has an address, and one that is connected a peer.
RequestsMeet ==
    \A r \in Request :
       /\ req[r].pc \in {"read", "sent"} => req[r].info \in Server
       /\ req[r].pc = "sent" => req[r].peer \in Server

\* The servers a request has seen serving never serve again once they have stopped.
LiveIsPast ==
    \A r \in Request : \A s \in req[r].live : pc[s] \in {"serving", "ended"} \cup Stopping

\* Runs that are not beside each other.
Alone == ~overlap => \A s, t \in Server : Alive(s) /\ Alive(t) => s = t

\* What a run that is alone finds in the file it has written.
FileIsOwn ==
    ~overlap => \A s \in Server :
       /\ pc[s] = "opened" => fd[s] = path /\ path \in Server /\ content[path] = "empty"
       /\ pc[s] \in {"written", "ready", "serving", "closing", "restored"}
            => path \in Server /\ content[path] = s
       /\ pc[s] = "unlinked" => path = None

\* A request under way will meet the server it has seen serving, if that still does.
RequestsKnow ==
    ~overlap => \A r \in Request :
       /\ req[r].pc \in {"read", "sent"}
            => \A s \in req[r].live : pc[s] = "serving" => req[r].info = s
       /\ req[r].pc = "sent"
            => \A s \in req[r].live : pc[s] = "serving" => req[r].peer = s

IInv ==
    /\ TypeOK /\ RequestsMeet /\ LiveIsPast /\ Alone /\ FileIsOwn /\ RequestsKnow
    /\ LiveServerAnswers /\ CleanStopRemovesFile /\ TokenIsForItsServer

-----------------------------------------------------------------------------

\* The initial state satisfies the invariant: no run is alive and no request is made.
LEMMA InitIInv == Init => IInv
<1> SUFFICES ASSUME Init PROVE IInv
  OBVIOUS
<1> USE ServeAssumption DEF Init
<1>1. TypeOK
  BY DEF TypeOK
<1>2. RequestsMeet /\ LiveIsPast /\ RequestsKnow /\ LiveServerAnswers /\ TokenIsForItsServer
  BY DEF RequestsMeet, LiveIsPast, RequestsKnow, LiveServerAnswers, TokenIsForItsServer
<1>3. Alone /\ FileIsOwn /\ CleanStopRemovesFile
  BY DEF Alone, FileIsOwn, CleanStopRemovesFile, Alive, AliveAt, Starting, Stopping
<1> QED
  BY <1>1, <1>2, <1>3 DEF IInv

\* Every step keeps the types.
LEMMA TypeStep == TypeOK /\ RequestsMeet /\ [Next]_vars => TypeOK'
<1> SUFFICES ASSUME TypeOK, RequestsMeet, [Next]_vars PROVE TypeOK'
  OBVIOUS
<1> USE ServeAssumption DEF TypeOK, AliveAt, Starting, Stopping, Goto
<1>1. ASSUME NEW s \in Server, Start(s) PROVE TypeOK'
  <2>1. CASE BindSocket(s)
    <3>1. PICK p \in Port : port' = [port EXCEPT ![s] = p]
      BY <2>1 DEF BindSocket
    <3> QED
      BY <2>1, <3>1 DEF BindSocket
  <2>2. CASE OpenTokenFile(s)
    BY <2>2 DEF OpenTokenFile
  <2>3. CASE WriteTokenFile(s)
    <3>1. PICK text \in {s, "garbled"} : content' = [content EXCEPT ![fd[s]] = text]
      BY <2>3 DEF WriteTokenFile
    <3> QED
      BY <2>3, <3>1 DEF WriteTokenFile
  <2>4. CASE ChmodTokenFile(s)
    BY <2>4 DEF ChmodTokenFile
  <2>5. CASE ServeForever(s)
    BY <2>5 DEF ServeForever
  <2> QED
    BY <1>1, <2>1, <2>2, <2>3, <2>4, <2>5 DEF Start
<1>2. ASSUME NEW s \in Server, Interrupt(s) \/ InterruptEarly(s) \/ Kill(s) \/ Stop(s)
      PROVE TypeOK'
  BY <1>2 DEF Interrupt, InterruptEarly, Kill, Stop, RestoreHandler, RemoveTokenFile, ServerClose
<1>3. ASSUME NEW r \in Request, Ask(r) PROVE TypeOK'
  <2>1. CASE ReadServerInfo(r)
    BY <2>1 DEF ReadServerInfo, Info, ServerInfo, Serving
  <2>2. CASE Connect(r)
    BY <2>2 DEF Connect
  <2>3. CASE Answer(r)
    BY <2>3 DEF Answer
  <2>4. CASE Reset(r)
    BY <2>4 DEF Reset
  <2> QED
    BY <1>3, <2>1, <2>2, <2>3, <2>4 DEF Ask
<1>4. CASE UNCHANGED vars
  BY <1>4 DEF vars
<1> QED
  BY <1>1, <1>2, <1>3, <1>4 DEF Next


-----------------------------------------------------------------------------
(* The steps of the servers, by what they change. *)

ServerStep == \E s \in Server : Start(s) \/ Interrupt(s) \/ InterruptEarly(s) \/ Kill(s) \/ Stop(s)

\* No server step touches a request, and none leads back to serving but from "ready".
LEMMA ServerStepFrame ==
  ASSUME TypeOK, ServerStep
  PROVE  /\ req' = req
         /\ \A t \in Server : pc'[t] = "serving" => pc[t] \in {"ready", "serving"}
         /\ \A t \in Server : pc[t] \in {"serving", "ended"} \cup Stopping
                              => pc'[t] \in {"serving", "ended"} \cup Stopping
         /\ overlap => overlap'
<1> USE DEF TypeOK, AliveAt, Starting, Stopping, Goto
<1>1. PICK s \in Server : Start(s) \/ Interrupt(s) \/ InterruptEarly(s) \/ Kill(s) \/ Stop(s)
  BY DEF ServerStep
<1>2. CASE Start(s)
  BY <1>2 DEF Start, BindSocket, OpenTokenFile, WriteTokenFile, ChmodTokenFile, ServeForever
<1>3. CASE Interrupt(s) \/ InterruptEarly(s) \/ Kill(s) \/ Stop(s)
  BY <1>3 DEF Interrupt, InterruptEarly, Kill, Alive, Stop, RestoreHandler, RemoveTokenFile, ServerClose
<1> QED
  BY <1>1, <1>2, <1>3

\* A server that starts alone finds nobody alive, and the others only leave.
LEMMA AloneStep == TypeOK /\ Alone /\ ServerStep => Alone'
<1> SUFFICES ASSUME TypeOK, Alone, ServerStep PROVE Alone'
  OBVIOUS
<1> USE DEF TypeOK, AliveAt, Starting, Stopping, Goto, Alive
<1>1. PICK s \in Server : Start(s) \/ Interrupt(s) \/ InterruptEarly(s) \/ Kill(s) \/ Stop(s)
  BY DEF ServerStep
<1>2. CASE BindSocket(s)
  <2>1. overlap' = (overlap \/ \E t \in Server : Alive(t)) /\ pc' = [pc EXCEPT ![s] = "bound"]
    BY <1>2 DEF BindSocket
  <2>2. ~overlap' => \A t \in Server : Alive(t)' => t = s
    BY <2>1
  <2> QED
    BY <2>2 DEF Alone
<1>3. CASE ~BindSocket(s)
  <2>1. overlap' = overlap /\ \A t \in Server : Alive(t)' => Alive(t)
    <3>1. CASE Start(s)
      BY <1>3, <3>1 DEF Start, OpenTokenFile, WriteTokenFile, ChmodTokenFile, ServeForever
    <3>2. CASE Interrupt(s) \/ InterruptEarly(s) \/ Kill(s) \/ Stop(s)
      BY <3>2 DEF Interrupt, InterruptEarly, Kill, Stop, RestoreHandler, RemoveTokenFile, ServerClose
    <3> QED
      BY <1>1, <3>1, <3>2
  <2> QED
    BY <2>1 DEF Alone
<1> QED
  BY <1>2, <1>3

\* A server that is alone keeps what it knows of the file: nobody else writes it,
\* and nobody else removes it.
LEMMA FileIsOwnStep == TypeOK /\ Alone /\ FileIsOwn /\ ServerStep => FileIsOwn'
<1> SUFFICES ASSUME TypeOK, Alone, FileIsOwn, ServerStep, ~overlap' PROVE FileIsOwn'
  BY DEF FileIsOwn
<1> USE DEF TypeOK, AliveAt, Starting, Stopping, Goto, Alive
<1>0. ~overlap
  BY ServerStepFrame
<1>1. PICK s \in Server : Start(s) \/ Interrupt(s) \/ InterruptEarly(s) \/ Kill(s) \/ Stop(s)
  BY DEF ServerStep
<1>2. CASE BindSocket(s)
  BY <1>0, <1>2 DEF BindSocket, FileIsOwn
<1>3. CASE OpenTokenFile(s)
  <2>1. \A t \in Server : Alive(t) => t = s
    BY <1>0, <1>3 DEF OpenTokenFile, Alone
  <2>2. pc' = [pc EXCEPT ![s] = "opened"] /\ path' \in Server /\ fd'[s] = path'
        /\ content'[path'] = "empty"
    BY <1>3, ServeAssumption DEF OpenTokenFile
  <2> QED
    BY <2>1, <2>2 DEF FileIsOwn
<1>4. CASE WriteTokenFile(s)
  <2>1. \A t \in Server : Alive(t) => t = s
    BY <1>0, <1>4 DEF WriteTokenFile, Alone
  <2>2. fd[s] = path /\ path \in Server /\ content[path] = "empty"
    BY <1>0, <1>4 DEF WriteTokenFile, FileIsOwn
  <2>3. content' = [content EXCEPT ![path] = s] /\ path' = path
        /\ pc' = [pc EXCEPT ![s] = "written"]
    BY <1>4, <2>2 DEF WriteTokenFile
  <2> QED
    BY <2>1, <2>2, <2>3 DEF FileIsOwn
<1>5. CASE ChmodTokenFile(s) \/ ServeForever(s) \/ Interrupt(s) \/ InterruptEarly(s) \/ Kill(s)
           \/ RestoreHandler(s) \/ ServerClose(s)
  <2>1. UNCHANGED <<path, content, fd>>
    BY <1>5 DEF ChmodTokenFile, ServeForever, Interrupt, InterruptEarly, Kill, RestoreHandler,
                ServerClose
  <2>2. \A t \in Server :
          /\ pc'[t] \notin {"opened", "unlinked"} \/ pc'[t] = pc[t]
          /\ pc'[t] \in {"written", "ready", "serving", "closing", "restored"}
               => pc[t] \in {"written", "ready", "serving", "closing", "restored"}
    BY <1>5 DEF ChmodTokenFile, ServeForever, Interrupt, InterruptEarly, Kill, RestoreHandler,
                ServerClose
  <2> QED
    BY <1>0, <2>1, <2>2 DEF FileIsOwn
<1>6. CASE RemoveTokenFile(s)
  <2>1. \A t \in Server : Alive(t) => t = s
    BY <1>0, <1>6 DEF RemoveTokenFile, Alone
  <2>2. path' = None /\ pc' = [pc EXCEPT ![s] = "unlinked"]
    BY <1>6 DEF RemoveTokenFile
  <2> QED
    BY <2>1, <2>2 DEF FileIsOwn
<1> QED
  BY <1>1, <1>2, <1>3, <1>4, <1>5, <1>6 DEF Start, Stop

\* A stop that went through unlinked the file; any other end is an early or a
\* violent one, or that of a run which found the file gone.
LEMMA CleanStopStep ==
    TypeOK /\ Alone /\ FileIsOwn /\ CleanStopRemovesFile /\ ServerStep => CleanStopRemovesFile'
<1> SUFFICES ASSUME TypeOK, Alone, FileIsOwn, CleanStopRemovesFile, ServerStep,
                    ~overlap', early' = {}, killed' = {}, \A t \in Server : ~Alive(t)'
             PROVE path' = None
  BY DEF CleanStopRemovesFile
<1> USE DEF TypeOK, AliveAt, Starting, Stopping, Goto, Alive
<1>0. ~overlap
  BY ServerStepFrame
<1>1. PICK s \in Server : Start(s) \/ Interrupt(s) \/ InterruptEarly(s) \/ Kill(s) \/ Stop(s)
  BY DEF ServerStep
<1>2. pc'[s] \notin AliveAt
  OBVIOUS
<1>3. CASE Start(s)
  BY <1>2, <1>3 DEF Start, BindSocket, OpenTokenFile, WriteTokenFile, ChmodTokenFile, ServeForever
<1>4. CASE Interrupt(s) \/ InterruptEarly(s) \/ Kill(s)
  BY <1>2, <1>4 DEF Interrupt, InterruptEarly, Kill
<1>5. CASE Stop(s)
  <2>1. ServerClose(s)
    BY <1>2, <1>5 DEF Stop, RestoreHandler, RemoveTokenFile
  <2> QED
    BY <1>0, <2>1 DEF ServerClose, FileIsOwn
<1> QED
  BY <1>1, <1>3, <1>4, <1>5

-----------------------------------------------------------------------------
(* What requests know, when a server moves and when a request does. *)

LEMMA RequestsWhenServersMove ==
    IInv /\ ServerStep
      => (RequestsMeet /\ LiveIsPast /\ RequestsKnow /\ LiveServerAnswers /\ TokenIsForItsServer)'
<1> SUFFICES ASSUME IInv, ServerStep
             PROVE (RequestsMeet /\ LiveIsPast /\ RequestsKnow /\ LiveServerAnswers
                      /\ TokenIsForItsServer)'
  OBVIOUS
<1> USE DEF IInv
<1>1. /\ req' = req
      /\ \A t \in Server : pc'[t] = "serving" => pc[t] \in {"ready", "serving"}
      /\ \A t \in Server : pc[t] \in {"serving", "ended"} \cup Stopping
                           => pc'[t] \in {"serving", "ended"} \cup Stopping
      /\ overlap => overlap'
  BY ServerStepFrame
<1>2. \A r \in Request : req[r].live \subseteq Server
  BY DEF TypeOK
<1>3. \A r \in Request : \A s \in req[r].live : pc'[s] = "serving" => pc[s] = "serving"
  BY <1>1, <1>2 DEF LiveIsPast, Stopping
<1>4. RequestsMeet' /\ TokenIsForItsServer'
  BY <1>1 DEF RequestsMeet, TokenIsForItsServer
<1>5. LiveIsPast'
  BY <1>1, <1>2 DEF LiveIsPast
<1>6. RequestsKnow'
  BY <1>1, <1>3 DEF RequestsKnow
<1>7. LiveServerAnswers'
  BY <1>1, <1>3 DEF LiveServerAnswers
<1> QED
  BY <1>4, <1>5, <1>6, <1>7

\* A request that reads the file beside a server that is alone gets its address.
LEMMA ReadFindsServer ==
  ASSUME IInv, ~overlap, NEW s \in Server, pc[s] = "serving"
  PROVE  ServerInfo = s
<1>1. path \in Server /\ content[path] = s
  BY DEF IInv, FileIsOwn
<1> QED
  BY <1>1, ServeAssumption DEF ServerInfo

\* The connection of a request made while a server that is alone was serving goes
\* to that server.
LEMMA ConnectFindsServer ==
  ASSUME IInv, ~overlap, NEW r \in Request, req[r].pc = "read",
         NEW s \in req[r].live, pc[s] = "serving"
  PROVE  /\ req[r].info = s /\ s \in Server
         /\ Taken(port[req[r].info])
         /\ \A t \in Server : Alive(t) => t = s
<1>1. s \in Server /\ req[r].info = s
  BY DEF IInv, TypeOK, RequestsKnow
<1>2. Alive(s)
  BY DEF Alive, AliveAt
<1> QED
  BY <1>1, <1>2 DEF IInv, Alone, Taken

LEMMA RequestStep ==
    ASSUME IInv, NEW r \in Request, Ask(r)
    PROVE  (RequestsMeet /\ LiveIsPast /\ RequestsKnow /\ LiveServerAnswers
              /\ TokenIsForItsServer)'
<1>1. TypeOK /\ RequestsMeet /\ LiveIsPast /\ RequestsKnow /\ LiveServerAnswers
        /\ TokenIsForItsServer
  BY DEF IInv
<1>2. pc' = pc /\ overlap' = overlap
  BY DEF Ask, ReadServerInfo, Connect, Answer, Reset
<1>3. /\ \A q \in Request \ {r} : req'[q] = req[q]
      /\ ~ReadServerInfo(r) => /\ req'[r].info = req[r].info /\ req'[r].live = req[r].live
                               /\ ~Connect(r) => req'[r].peer = req[r].peer
  BY <1>1 DEF TypeOK, Ask, ReadServerInfo, Connect, Answer, Reset
<1> DEFINE Good(q) ==
      /\ req[q].pc \in {"read", "sent"} => req[q].info \in Server
      /\ req[q].pc = "sent" => req[q].peer \in Server
      /\ \A s \in req[q].live : pc[s] \in {"serving", "ended"} \cup Stopping
      /\ ~overlap => \A s \in req[q].live : pc[s] = "serving" =>
           /\ req[q].pc \in {"read", "sent"} => req[q].info = s
           /\ req[q].pc = "sent" => req[q].peer = s
           /\ req[q].pc \notin {"failed", "refused"}
      /\ q \notin Health /\ req[q].pc = "answered" => req[q].peer = req[q].info
<1>4. \A q \in Request : Good(q)
  BY <1>1 DEF RequestsMeet, LiveIsPast, RequestsKnow, LiveServerAnswers, TokenIsForItsServer
<1>5. Good(r)'
  <2>1. CASE ReadServerInfo(r)
    <3>1. req'[r] = [pc |-> IF ServerInfo = None THEN "failed" ELSE "read",
                     info |-> ServerInfo, peer |-> None, live |-> Serving]
      BY <1>1, <2>1 DEF TypeOK, ReadServerInfo, Info
    <3>2. ServerInfo \in Server \cup {None}
      BY <1>1 DEF TypeOK, ServerInfo
    <3>3. ~overlap => \A s \in Serving : ServerInfo = s /\ s # None
      BY ReadFindsServer, ServeAssumption DEF Serving
    <3> QED
      BY <1>2, <3>1, <3>2, <3>3 DEF Serving
  <2>2. CASE Connect(r)
    <3>1. req[r].pc = "read"
      BY <2>2 DEF Connect
    <3>2. \/ \E s \in Server : Alive(s) /\ req'[r].pc = "sent" /\ req'[r].peer = s
          \/ ~Taken(port[req[r].info]) /\ req'[r].pc = "failed"
      BY <1>1, <2>2 DEF TypeOK, Connect
    <3>3. ~overlap => \A s \in req[r].live : pc[s] = "serving" =>
             /\ req[r].info = s /\ Taken(port[req[r].info])
             /\ \A t \in Server : Alive(t) => t = s
      BY <3>1, ConnectFindsServer
    <3>4. req'[r].info = req[r].info /\ req'[r].live = req[r].live
      BY <1>3, <3>1, <2>2 DEF Connect, ReadServerInfo
    <3> HIDE DEF Good
    <3>5. Good(r)
      BY <1>4
    <3> QED
      BY <1>2, <3>1, <3>2, <3>3, <3>4, <3>5 DEF Good
  <2>3. CASE Answer(r)
    <3>1. req[r].pc = "sent" /\ pc[req[r].peer] = "serving"
          /\ req'[r].pc = IF r \in Health \/ Authenticated(r) THEN "answered" ELSE "refused"
      BY <1>1, <2>3 DEF TypeOK, Answer
    <3>2. req'[r].info = req[r].info /\ req'[r].live = req[r].live /\ req'[r].peer = req[r].peer
      BY <1>3, <3>1, <2>3 DEF Answer, ReadServerInfo, Connect
    <3> QED
      BY <1>2, <1>4, <3>1, <3>2 DEF Authenticated
  <2>4. CASE Reset(r)
    <3>1. req[r].pc = "sent" /\ pc[req[r].peer] = "ended" /\ req'[r].pc = "failed"
      BY <1>1, <2>4 DEF TypeOK, Reset
    <3>2. req'[r].info = req[r].info /\ req'[r].live = req[r].live /\ req'[r].peer = req[r].peer
      BY <1>3, <3>1, <2>4 DEF Reset, ReadServerInfo, Connect
    <3> QED
      BY <1>2, <1>4, <3>1, <3>2
  <2> QED
    BY <2>1, <2>2, <2>3, <2>4 DEF Ask
<1>6. \A q \in Request : Good(q)'
  BY <1>2, <1>3, <1>4, <1>5
<1> HIDE DEF Good
<1>7. (\A q \in Request : Good(q))'
  BY <1>6
<1> QED
  BY <1>7 DEF Good, RequestsMeet, LiveIsPast, RequestsKnow, LiveServerAnswers, TokenIsForItsServer

-----------------------------------------------------------------------------

LEMMA NextIInv == IInv /\ [Next]_vars => IInv'
<1> SUFFICES ASSUME IInv, [Next]_vars PROVE IInv'
  OBVIOUS
<1>1. TypeOK'
  BY TypeStep DEF IInv
<1>2. CASE ServerStep
  BY <1>1, <1>2, AloneStep, FileIsOwnStep, CleanStopStep, RequestsWhenServersMove DEF IInv
<1>3. ASSUME NEW r \in Request, Ask(r) PROVE IInv'
  <2>1. UNCHANGED <<pc, port, path, content, fd, overlap, early, killed>>
    BY <1>3 DEF Ask, ReadServerInfo, Connect, Answer, Reset
  <2>2. (Alone /\ FileIsOwn /\ CleanStopRemovesFile)'
    BY <2>1 DEF IInv, Alone, FileIsOwn, CleanStopRemovesFile, Alive
  <2> QED
    BY <1>1, <1>3, <2>2, RequestStep DEF IInv
<1>4. CASE UNCHANGED vars
  BY <1>4 DEF vars, IInv, TypeOK, RequestsMeet, LiveIsPast, Alone, FileIsOwn, RequestsKnow,
              LiveServerAnswers, CleanStopRemovesFile, TokenIsForItsServer, Alive
<1> QED
  BY <1>2, <1>3, <1>4 DEF Next, ServerStep

\* The inductive invariant holds in every behaviour.
THEOREM Invariance == Spec => []IInv
  BY InitIInv, NextIInv, PTL DEF Spec

\* Every variable keeps its type (Serve.tla).
THEOREM TypeCorrect == Spec => []TypeOK
  BY Invariance, PTL DEF IInv

\* A request that read the file beside a server that is alone and goes on serving
\* is neither failed nor refused (README, connection recovery).
THEOREM LiveServersAnswer == Spec => []LiveServerAnswers
  BY Invariance, PTL DEF IInv

\* Servers stopped by one signal while serving, one after the other, leave no file.
THEOREM CleanStops == Spec => []CleanStopRemovesFile
  BY Invariance, PTL DEF IInv

\* A token is accepted by nobody but the server that drew it.
THEOREM TokensAreOwn == Spec => []TokenIsForItsServer
  BY Invariance, PTL DEF IInv
=============================================================================
