----------------------------- MODULE HttpServer -----------------------------
(***************************************************************************)
(* net/http/http_server.c: the accept loop, a detached thread for every    *)
(* connection that reads, runs the middleware and the handler and answers, *)
(* and stop and destroy from another thread.  A request is a header and a  *)
(* body of so many bytes; what a middleware or a handler decides, and how  *)
(* the bytes are cut into packets, is left open.  destroy is called as the *)
(* documentation shows it, after start has returned.                       *)
(***************************************************************************)
EXTENDS Integers, FiniteSets

CONSTANTS
  Conns,            \* connections
  HeaderLens, BodyLens,
  BufSize,          \* bytes that the buffer takes
  HeaderLimit,      \* 16384: more than that without an end of header is enough
  NumMiddleware,
  num_threads,      \* as given to SNEPPX_http_server_create
  StopEarly         \* stop may come before start has set running

VARIABLES
  main,         \* where SNEPPX_http_server_start is
  running, listening,
  stop,         \* "no", "flag" once running was cleared, "done"
  freed,
  conn,         \* conn[c]: the connection and the thread that handles it
  touched       \* a thread used the server after it was freed

vars == <<main, running, listening, stop, freed, conn, touched>>
server == <<main, running, listening, stop, freed>>

NoConn == [pc |-> "none", header |-> 0, body |-> 0, sent |-> 0, have |-> 0, eof |-> FALSE,
           passed |-> 0, refused |-> FALSE, handled |-> FALSE, status |-> 200]

Init ==
  /\ main = "idle" /\ running = FALSE /\ listening = FALSE /\ stop = "no" /\ freed = FALSE
  /\ conn = [c \in Conns |-> NoConn] /\ touched = FALSE

-----------------------------------------------------------------------------
(* The client and the network *)

Connect(c, h, b) ==
  /\ conn[c].pc = "none" /\ listening
  /\ conn' = [conn EXCEPT ![c] = [NoConn EXCEPT !.pc = "backlog", !.header = h, !.body = b]]
  /\ UNCHANGED <<server, touched>>

\* More bytes arrive.
Arrive(c) ==
  /\ conn[c].pc \in {"backlog", "reading"} /\ ~conn[c].eof
  /\ \E n \in conn[c].sent + 1 .. conn[c].header + conn[c].body :
       conn' = [conn EXCEPT ![c].sent = n]
  /\ UNCHANGED <<server, touched>>

ClientCloses(c) ==
  /\ conn[c].pc = "reading" /\ ~conn[c].eof
  /\ conn' = [conn EXCEPT ![c].eof = TRUE]
  /\ UNCHANGED <<server, touched>>

-----------------------------------------------------------------------------
(* SNEPPX_http_server_start, stop and destroy *)

StartListen ==
  /\ main = "idle" /\ stop = "no"
  /\ \/ main' = "listening" /\ listening' = TRUE
     \/ main' = "failed" /\ UNCHANGED listening       \* socket, bind or listen
  /\ UNCHANGED <<running, stop, freed, conn, touched>>

StartRunning ==
  /\ main = "listening" /\ main' = "accepting" /\ running' = TRUE
  /\ UNCHANGED <<listening, stop, freed, conn, touched>>

\* A connection gets a thread, or is closed if none can be created.
Accept(c) ==
  /\ main = "accepting" /\ listening /\ conn[c].pc = "backlog"
  /\ \E pc \in {"reading", "closed"} : conn' = [conn EXCEPT ![c].pc = pc]
  /\ UNCHANGED <<server, touched>>

\* accept fails while the server runs: the loop sleeps and tries again.
AcceptFails == main = "accepting" /\ running /\ UNCHANGED vars

\* The loop, or an accept that failed on the closed socket, sees the flag.
AcceptEnds ==
  /\ main = "accepting" /\ ~running /\ main' = "ended"
  /\ UNCHANGED <<running, listening, stop, freed, conn, touched>>

StopFlag ==
  /\ stop = "no" /\ main # "idle" /\ (StopEarly \/ main # "listening")
  /\ running' = FALSE /\ stop' = "flag"
  /\ UNCHANGED <<main, listening, freed, conn, touched>>

StopClose ==
  /\ stop = "flag" /\ listening' = FALSE /\ stop' = "done"
  /\ UNCHANGED <<main, running, freed, conn, touched>>

Destroy ==
  /\ main \in {"ended", "failed"} /\ stop = "done" /\ ~freed /\ freed' = TRUE
  /\ UNCHANGED <<main, running, listening, stop, conn, touched>>

-----------------------------------------------------------------------------
(* handle_connection *)

\* Mutant of Whole: the end of the header is enough.
WholeHeader(k, have) == have >= k.header \/ have > HeaderLimit

\* The reading loop stops with the body that Content-Length announces.
Whole(k, have) ==
  IF have >= k.header THEN k.body = 0 \/ have - k.header >= k.body ELSE have > HeaderLimit

\* A packet, and the request line if it was the last; or the end of the stream; a full buffer asks for 0 bytes and
\* gets as many, which closes the connection as well.
Recv(c) ==
  LET k == conn[c] IN
  /\ k.pc = "reading"
  /\ \/ k.have < BufSize
        /\ \E have \in k.have + 1 .. k.sent, parsed \in BOOLEAN :
             /\ have <= BufSize
             /\ conn' = [conn EXCEPT ![c].have = have,
                           ![c].status = IF Whole(k, have) /\ ~parsed THEN 400 ELSE 200,
                           ![c].pc = IF ~Whole(k, have) THEN "reading"
                                     ELSE IF parsed THEN "middleware" ELSE "respond"]
     \/ /\ k.have = BufSize \/ (k.have = k.sent /\ k.eof)
        /\ conn' = [conn EXCEPT ![c].pc = "closed"]
  /\ UNCHANGED <<server, touched>>

AfterMiddleware(refuses) == IF refuses THEN "respond" ELSE "middleware"

Middleware(c) ==
  /\ conn[c].pc = "middleware" /\ touched' = (touched \/ freed)
  /\ IF conn[c].passed = NumMiddleware
     THEN conn' = [conn EXCEPT ![c].pc = "route"]
     ELSE \E refuses \in BOOLEAN :
            conn' = [conn EXCEPT ![c].pc = AfterMiddleware(refuses), ![c].passed = @ + 1,
                                 ![c].refused = @ \/ refuses,
                                 ![c].status = IF refuses THEN 401 ELSE 200]
  /\ UNCHANGED server

\* A static file, a route whose handler succeeds or fails, or 404.
Route(c) ==
  /\ conn[c].pc = "route" /\ touched' = (touched \/ freed)
  /\ \E found \in BOOLEAN, status \in {200, 400}, failed \in BOOLEAN :
       conn' = [conn EXCEPT ![c].pc = "respond", ![c].handled = found,
                            ![c].status = IF ~found THEN 404
                                          ELSE IF failed /\ status = 200 THEN 500 ELSE status]
  /\ UNCHANGED server

Respond(c) ==
  /\ conn[c].pc = "respond" /\ conn' = [conn EXCEPT ![c].pc = "done"]
  /\ UNCHANGED <<server, touched>>

Worker(c) == Recv(c) \/ Middleware(c) \/ Route(c) \/ Respond(c)

\* What is closed stays closed; a server that is gone has nothing to do.
Finished ==
  /\ freed \/ (main \in {"ended", "failed"} /\ stop = "done")
  /\ UNCHANGED vars

Next ==
  \/ StartListen \/ StartRunning \/ AcceptFails \/ AcceptEnds
  \/ StopFlag \/ StopClose \/ Destroy \/ Finished
  \/ \E c \in Conns : Arrive(c) \/ ClientCloses(c) \/ Accept(c) \/ Worker(c)
  \/ \E c \in Conns, h \in HeaderLens, b \in BodyLens : Connect(c, h, b)

\* Threads run, and a call of stop that has begun goes on.
Fairness ==
  /\ WF_vars(StartRunning) /\ WF_vars(AcceptEnds) /\ WF_vars(StopClose)
  /\ \A c \in Conns : WF_vars(Worker(c)) /\ WF_vars(Accept(c))
Spec == Init /\ [][Next]_vars /\ Fairness

-----------------------------------------------------------------------------
(* Properties *)

Handling(c) == conn[c].pc \in {"middleware", "route", "respond", "done"}

\* A request is handled with its whole body, however it was cut into packets,
\* unless its header never ended.
BodyWhole ==
  \A c \in Conns : Handling(c) /\ conn[c].have >= conn[c].header =>
    conn[c].have = conn[c].header + conn[c].body

\* No handler runs after a middleware has refused the request.
ShortCircuit == \A c \in Conns : ~(conn[c].refused /\ conn[c].handled)

\* A request that has arrived and fits into the buffer is answered.
Answered ==
  \A c \in Conns :
    conn[c].pc = "reading" /\ conn[c].sent = conn[c].header + conn[c].body
      /\ conn[c].sent <= BufSize ~> conn[c].pc = "done"

\* After stop, start returns.
StopReturns == stop = "done" ~> main \in {"ended", "failed"}

\* No thread uses the server after destroy.
NoUseAfterDestroy == ~touched

\* Connections are handled by num_threads threads.
ThreadsBounded ==
  Cardinality({c \in Conns : conn[c].pc \in {"reading", "middleware", "route", "respond"}}) <= num_threads
=============================================================================
