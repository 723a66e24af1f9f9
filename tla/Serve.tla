--------------------------------- MODULE Serve ---------------------------------
(***************************************************************************)
(* code-agent serve and how the extension finds it: the processes that     *)
(* bind a port, leave their address and token in ~/.code-agent/server.json *)
(* and take it away when they stop (build_server, run_server), and the     *)
(* requests of the extension, each of which reads the file anew            *)
(* (vscode-extension/src/client.ts).                                       *)
(*                                                                         *)
(* A server is one run of a process; its token is drawn at random when it  *)
(* starts, so the server stands for its token.  What a request asks of the *)
(* session is in SessionServer.                                            *)
(***************************************************************************)
EXTENDS Naturals, FiniteSets

CONSTANTS
    Server,     \* runs of code-agent serve, one after the other or beside each other
    Request,    \* requests of the extension
    Health,     \* those that are GET /health, which needs no token
    Port,
    Default,    \* DEFAULT_PORT
    None

ASSUME ServeAssumption ==
    /\ Health \subseteq Request
    /\ Default \in Port
    /\ None \notin Server \cup Port

VARIABLES
    pc,         \* pc[s]: how far run s is in build_server and run_server
    port,       \* port[s]: the port s has bound
    path,       \* what TOKEN_FILE names: a file, called by the run that created it
    content,    \* content[f]: the run whose address is in file f, or why it is unreadable
    fd,         \* fd[s]: the file s has open
    req,        \* req[r]: how far request r is, and whom it has met
    overlap,    \* some run has started while another was alive
    early,      \* the runs ended by a signal before the try or in the finally clause
    killed      \* the runs ended by SIGKILL or a crash

vars == <<pc, port, path, content, fd, req, overlap, early, killed>>

Starting == {"bound", "opened", "written", "ready"}
Stopping == {"closing", "restored", "unlinked"}
AliveAt == Starting \cup {"serving"} \cup Stopping

Alive(s) == pc[s] \in AliveAt

TypeOK ==
    /\ pc \in [Server -> {"new", "ended"} \cup AliveAt]
    /\ port \in [Server -> Port \cup {None}]
    /\ path \in Server \cup {None}
    /\ content \in [Server -> Server \cup {"empty", "garbled"}]
    /\ fd \in [Server -> Server \cup {None}]
    /\ req \in [Request -> [pc : {"idle", "read", "sent", "answered", "refused", "failed"},
                            info : Server \cup {None},
                            peer : Server \cup {None},
                            live : SUBSET Server]]
    /\ overlap \in BOOLEAN
    /\ early \subseteq Server
    /\ killed \subseteq Server

Init ==
    /\ pc = [s \in Server |-> "new"]
    /\ port = [s \in Server |-> None]
    /\ path = None
    /\ content = [s \in Server |-> "empty"]
    /\ fd = [s \in Server |-> None]
    /\ req = [r \in Request |-> [pc |-> "idle", info |-> None, peer |-> None, live |-> {}]]
    /\ overlap = FALSE
    /\ early = {}
    /\ killed = {}

Goto(s, to) == pc' = [pc EXCEPT ![s] = to]

-----------------------------------------------------------------------------
(* A server starts. *)

Taken(p) == \E s \in Server : Alive(s) /\ port[s] = p

\* The default port, or one the system chooses if that is taken.
BindSocket(s) ==
    /\ pc[s] = "new"
    /\ \E p \in Port :
          /\ ~Taken(p)
          /\ ~Taken(Default) => p = Default
          /\ port' = [port EXCEPT ![s] = p]
    /\ overlap' = (overlap \/ \E t \in Server : Alive(t))
    /\ Goto(s, "bound")
    /\ UNCHANGED <<path, content, fd, req, early, killed>>

\* O_CREAT and O_TRUNC: a file that is there is emptied, and stays the same file.
OpenTokenFile(s) ==
    LET file == IF path = None THEN s ELSE path
    IN  /\ pc[s] = "bound"
        /\ path' = file
        /\ content' = [content EXCEPT ![file] = "empty"]
        /\ fd' = [fd EXCEPT ![s] = file]
        /\ Goto(s, "opened")
        /\ UNCHANGED <<port, req, overlap, early, killed>>

\* The text goes to the start of the opened file, over what another run has
\* written there since, which may reach further.
WriteTokenFile(s) ==
    /\ pc[s] = "opened"
    /\ \E text \in {s} \cup (IF content[fd[s]] = "empty" THEN {} ELSE {"garbled"}) :
          content' = [content EXCEPT ![fd[s]] = text]
    /\ fd' = [fd EXCEPT ![s] = None]
    /\ Goto(s, "written")
    /\ UNCHANGED <<port, path, req, overlap, early, killed>>

\* os.chmod goes by the path: it raises, and the server never starts, if the
\* file has been removed meanwhile.
ChmodTokenFile(s) ==
    /\ pc[s] = "written"
    /\ Goto(s, IF path = None THEN "ended" ELSE "ready")
    /\ UNCHANGED <<port, path, content, fd, req, overlap, early, killed>>

\* run_server asks Ollama, prints its banner and installs the handler.
ServeForever(s) ==
    /\ pc[s] = "ready"
    /\ Goto(s, "serving")
    /\ UNCHANGED <<port, path, content, fd, req, overlap, early, killed>>

-----------------------------------------------------------------------------
(* A server stops. *)

\* Mutant of Interrupt: only Ctrl+C is handled, SIGTERM ends the process.
InterruptUnhandled(s) ==
    /\ pc[s] = "serving"
    /\ pc' \in {[pc EXCEPT ![s] = "closing"], [pc EXCEPT ![s] = "ended"]}
    /\ UNCHANGED <<port, path, content, fd, req, overlap, early, killed>>

\* Ctrl+C or SIGTERM while it serves: the finally clause is entered.
Interrupt(s) ==
    /\ pc[s] = "serving"
    /\ Goto(s, "closing")
    /\ UNCHANGED <<port, path, content, fd, req, overlap, early, killed>>

\* The same before the try, where SIGTERM has its default action, or a second
\* time in the finally clause: what follows there is not done any more.
InterruptEarly(s) ==
    /\ pc[s] \in Starting \cup Stopping
    /\ Goto(s, "ended")
    /\ early' = early \cup {s}
    /\ UNCHANGED <<port, path, content, fd, req, overlap, killed>>

Kill(s) ==
    /\ Alive(s)
    /\ Goto(s, "ended")
    /\ killed' = killed \cup {s}
    /\ UNCHANGED <<port, path, content, fd, req, overlap, early>>

RestoreHandler(s) ==
    /\ pc[s] = "closing"
    /\ Goto(s, "restored")
    /\ UNCHANGED <<port, path, content, fd, req, overlap, early, killed>>

\* Whichever file the path names, written by this run or by another.
RemoveTokenFile(s) ==
    /\ pc[s] = "restored"
    /\ path' = None
    /\ Goto(s, "unlinked")
    /\ UNCHANGED <<port, content, fd, req, overlap, early, killed>>

ServerClose(s) ==
    /\ pc[s] = "unlinked"
    /\ Goto(s, "ended")
    /\ UNCHANGED <<port, path, content, fd, req, overlap, early, killed>>

-----------------------------------------------------------------------------
(* The extension's requests. *)

\* Mutant of ServerInfo: the text is taken for an address without a look at it.
ServerInfoUnchecked == IF path = None THEN None ELSE content[path]

\* What readServerInfo finds: nothing if there is no file or it does not parse.
ServerInfo ==
    IF path # None /\ content[path] \in Server THEN content[path] ELSE None

\* Mutant of Info: what an earlier request has read is kept.
Remembered(r) ==
    LET known == {q \in Request \ {r} : req[q].info # None}
    IN  IF known = {} THEN ServerInfo ELSE req[CHOOSE q \in known : TRUE].info

\* Every request reads the file itself.
Info(r) == ServerInfo

Serving == {s \in Server : pc[s] = "serving"}

ReadServerInfo(r) ==
    /\ req[r].pc = "idle"
    /\ req' = [req EXCEPT ![r] =
                 [pc |-> IF Info(r) = None THEN "failed" ELSE "read",
                  info |-> Info(r), peer |-> None, live |-> Serving]]
    /\ UNCHANGED <<pc, port, path, content, fd, overlap, early, killed>>

\* Whoever has the port now takes the connection, serving or not yet or no more.
Connect(r) ==
    /\ req[r].pc = "read"
    /\ \/ \E s \in Server :
             /\ Alive(s) /\ port[s] = port[req[r].info]
             /\ req' = [req EXCEPT ![r].pc = "sent", ![r].peer = s]
       \/ /\ ~Taken(port[req[r].info])
          /\ req' = [req EXCEPT ![r].pc = "failed"]
    /\ UNCHANGED <<pc, port, path, content, fd, overlap, early, killed>>

Authenticated(r) == req[r].info = req[r].peer

\* do_GET and do_POST: 401 for another run's token, except to /health.
Answer(r) ==
    /\ req[r].pc = "sent"
    /\ pc[req[r].peer] = "serving"
    /\ req' = [req EXCEPT ![r].pc =
                 IF r \in Health \/ Authenticated(r) THEN "answered" ELSE "refused"]
    /\ UNCHANGED <<pc, port, path, content, fd, overlap, early, killed>>

\* The process has ended with the connection open.
Reset(r) ==
    /\ req[r].pc = "sent"
    /\ pc[req[r].peer] = "ended"
    /\ req' = [req EXCEPT ![r].pc = "failed"]
    /\ UNCHANGED <<pc, port, path, content, fd, overlap, early, killed>>

-----------------------------------------------------------------------------

Start(s) ==
    \/ BindSocket(s) \/ OpenTokenFile(s) \/ WriteTokenFile(s) \/ ChmodTokenFile(s)
    \/ ServeForever(s)

Stop(s) == RestoreHandler(s) \/ RemoveTokenFile(s) \/ ServerClose(s)

Ask(r) == ReadServerInfo(r) \/ Connect(r) \/ Answer(r) \/ Reset(r)

Next ==
    \/ \E s \in Server : Start(s) \/ Interrupt(s) \/ InterruptEarly(s) \/ Kill(s) \/ Stop(s)
    \/ \E r \in Request : Ask(r)

Spec == Init /\ [][Next]_vars

-----------------------------------------------------------------------------
(* Properties. *)

\* "the very next request from the same long-lived AgentClient instance picks up
\* the change automatically" (README, connection recovery): a request does not
\* fail, and is not refused, if a server was serving when it read the file and
\* still is, whatever came before: restarts, other ports, a run that was killed
\* and left its file.  Only runs beside each other are excepted.
LiveServerAnswers ==
    ~overlap =>
      \A r \in Request :
         req[r].pc \in {"failed", "refused"} => \A s \in req[r].live : pc[s] # "serving"

\* "shuts it down cleanly and removes the token file" (README): once all runs are
\* over, each stopped by one signal while it was serving and none beside another,
\* there is no file.
CleanStopRemovesFile ==
    /\ ~overlap /\ early = {} /\ killed = {}
    /\ \A s \in Server : ~Alive(s)
    => path = None

\* A token opens no server but the one that drew it, also one that has bound the
\* same port since, and however long the request was under way
\* (_authenticated; client.test.ts, "stale token").
TokenIsForItsServer ==
    \A r \in Request \ Health :
       req[r].pc = "answered" => req[r].peer = req[r].info

\* "Make a plain `kill`/service-manager stop behave like Ctrl+C so the token file
\* is always cleaned up on shutdown" (run_server): no file is left by runs that
\* nobody has killed with SIGKILL.  It fails for a signal in the seconds before
\* serve_forever, and for a second one.
FileIsAlwaysRemoved ==
    /\ ~overlap /\ killed = {}
    /\ \A s \in Server : ~Alive(s)
    => path = None
=============================================================================
