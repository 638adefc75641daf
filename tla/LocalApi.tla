------------------------------- MODULE LocalApi -------------------------------
(***************************************************************************)
(* apps/desktop/src-tauri/src/local_api.rs: one thread serves programs on  *)
(* the same machine, one connection after the other, until the desktop     *)
(* application drops the server and waits for the thread to end.           *)
(*                                                                         *)
(* A connection is the lines that have come and were not read yet, and     *)
(* whether the client has closed its end.                                  *)
(***************************************************************************)
EXTENDS Integers, Sequences, SequencesExt

CONSTANTS
  Clients,   \* connections other programs may make
  Requests,  \* what a client may send: sequences of lines
  Wake,      \* the connection drop makes
  Token      \* the token of this start of the application

VARIABLES
  thread,    \* what the accept loop does, and with which connection
  shutdown,  \* the flag drop sets
  owner,     \* how far drop has come
  backlog,   \* the connections that were not accepted yet
  client     \* client[c]: what c means to send, what has come, the answer

apiVars == <<thread, shutdown, owner, backlog, client>>

Connections == Clients \cup {Wake}
Silent == [stage |-> "new", script |-> <<>>, inbox |-> <<>>, closed |-> FALSE, status |-> 0]
Loop(step) == [step |-> step, with |-> Wake, read |-> <<>>]

ApiInit ==
  /\ thread = Loop("checking") /\ shutdown = FALSE
  /\ owner = "running" /\ backlog = <<>>
  /\ client = [c \in Connections |-> Silent]

-------------------------------------------------------------------------------
(* is_authorized: the last authorization line counts.                      *)
IsAuthorized(headers) ==
  \E i \in DOMAIN headers :
    /\ headers[i].kind = "authorization" /\ headers[i].token = Token
    /\ \A j \in DOMAIN headers : j > i => headers[j].kind # "authorization"

(* handle_get: the statuses the answer may have, for the database may be   *)
(* unreadable, and the article gone.                                       *)
HandleGet(path) ==
  CASE path \in {"/feeds", "/articles", "/search?q=word"} -> {200, 500}
    [] path \in {"/health", "/exports"} -> {200}
    [] path = "/search" -> {400}
    [] path = "/articles/id" -> {200, 404, 500}
    [] OTHER -> {404}

(* read_from and route_request: any first line is taken for a request line.*)
(* Every peer is on the loopback interface.                                *)
RouteRequest(read) ==
  IF read = <<>> THEN {400}
  ELSE IF ~IsAuthorized(Tail(read)) THEN {401}
  ELSE IF read[1].kind # "request" \/ read[1].method # "GET" THEN {403}
  ELSE HandleGet(read[1].path)

-------------------------------------------------------------------------------
(* What other programs do, while the listener is open.                     *)
Connect(c, script) ==
  /\ client[c].stage = "new" /\ thread.step # "ended"
  /\ client' = [client EXCEPT ![c].stage = "waiting", ![c].script = script]
  /\ backlog' = Append(backlog, c)
  /\ UNCHANGED <<thread, shutdown, owner>>

Send(c) ==
  /\ client[c].script # <<>> /\ ~client[c].closed
  /\ client' = [client EXCEPT ![c].script = Tail(@),
                              ![c].inbox = Append(@, Head(client[c].script))]
  /\ UNCHANGED <<thread, shutdown, owner, backlog>>

Hang(c) ==
  /\ client[c].stage # "new" /\ ~client[c].closed
  /\ client' = [client EXCEPT ![c].closed = TRUE]
  /\ UNCHANGED <<thread, shutdown, owner, backlog>>

(* run_accept_loop: while !shutdown                                        *)
CheckShutdown ==
  /\ thread.step = "checking"
  /\ thread' = Loop(IF shutdown THEN "ended" ELSE "accepting")
  /\ UNCHANGED <<shutdown, owner, backlog, client>>

(* No connection: the loop sleeps for 25 ms.                               *)
WouldBlock ==
  /\ thread.step = "accepting" /\ backlog = <<>>
  /\ thread' = Loop("checking")
  /\ UNCHANGED <<shutdown, owner, backlog, client>>

Accept ==
  /\ thread.step = "accepting" /\ backlog # <<>>
  /\ thread' = [step |-> "reading", with |-> Head(backlog), read |-> <<>>]
  /\ backlog' = Tail(backlog)
  /\ UNCHANGED <<shutdown, owner, client>>

(* Any other error ends the loop; what status() says stays as it was.      *)
AcceptFails ==
  /\ thread.step = "accepting"
  /\ thread' = Loop("ended")
  /\ UNCHANGED <<shutdown, owner, backlog, client>>

(* read_from takes a line; the end of the stream, too, is an empty one.    *)
ReadLine ==
  LET c == thread.with
      line == IF client[c].inbox # <<>> THEN Head(client[c].inbox) ELSE [kind |-> "end"]
  IN  /\ thread.step = "reading"
      /\ client[c].inbox # <<>> \/ client[c].closed
      /\ thread' = [thread EXCEPT !.step = IF line.kind = "end" THEN "answering" ELSE @,
                                  !.read = IF line.kind = "end" THEN @ ELSE Append(@, line)]
      /\ client' = [client EXCEPT ![c].inbox = IF @ = <<>> THEN @ ELSE Tail(@)]
      /\ UNCHANGED <<shutdown, owner, backlog>>

(* Slip: set_read_timeout is forgotten.                                    *)
NeverTimesOut(c) == FALSE

(* A read waits 500 ms for the next line.                                  *)
TimesOut(c) == client[c].inbox = <<>> /\ ~client[c].closed

(* The request is answered with 400.                                       *)
ReadTimeout ==
  /\ thread.step = "reading" /\ TimesOut(thread.with)
  /\ thread' = [thread EXCEPT !.step = "answering", !.read = <<>>]
  /\ UNCHANGED <<shutdown, owner, backlog, client>>

(* write_response, and the stream is closed; an error is printed, and the  *)
(* loop goes on.                                                           *)
Answer ==
  LET c == thread.with
  IN  /\ thread.step = "answering"
      /\ \E status \in RouteRequest(thread.read) :
           client' = [client EXCEPT ![c] =
             [Silent EXCEPT !.stage = "answered", !.closed = TRUE,
                            !.status = IF client[c].closed THEN 0 ELSE status]]
      /\ thread' = Loop("checking")
      /\ UNCHANGED <<shutdown, owner, backlog>>

(* Drop: the flag is set, ...                                              *)
StoreShutdown ==
  /\ owner = "running"
  /\ owner' = "waking" /\ shutdown' = TRUE
  /\ UNCHANGED <<thread, backlog, client>>

(* ... a connection is made and closed, or is not made, ...                *)
WakeUp ==
  /\ owner = "waking"
  /\ owner' = "joining"
  /\ \/ /\ thread.step # "ended"
        /\ backlog' = Append(backlog, Wake)
        /\ client' = [client EXCEPT ![Wake].stage = "waiting", ![Wake].closed = TRUE]
     \/ UNCHANGED <<backlog, client>>
  /\ UNCHANGED <<thread, shutdown>>

(* ... and the thread is joined.                                           *)
JoinThread ==
  /\ owner = "joining" /\ thread.step = "ended"
  /\ owner' = "dropped"
  /\ UNCHANGED <<thread, shutdown, backlog, client>>

ServerStep == CheckShutdown \/ WouldBlock \/ Accept \/ ReadLine \/ ReadTimeout \/ Answer

ApiNext ==
  \/ \E c \in Clients : \/ \E script \in Requests : Connect(c, script)
                        \/ Send(c) \/ Hang(c)
  \/ ServerStep \/ AcceptFails
  \/ StoreShutdown \/ WakeUp \/ JoinThread

(* When nothing else of the application is at work.                        *)
ApiSpec == ApiInit /\ [][ApiNext]_apiVars

ApiTypeOK ==
  /\ thread.step \in {"checking", "accepting", "reading", "answering", "ended"}
  /\ shutdown \in BOOLEAN
  /\ owner \in {"running", "waking", "joining", "dropped"}
  /\ Range(backlog) \subseteq Connections
  /\ \A c \in Connections : client[c].stage \in {"new", "waiting", "answered"}

-------------------------------------------------------------------------------
(* However few lines a client sends, and whether or not it closes: again   *)
(* and again there is nobody left who waits for an answer, unless the      *)
(* listener failed or the application ends, and no application that has    *)
(* begun to drop the server waits for its thread.                          *)
ApiAnswersAndStops ==
  []<>/\ owner \in {"running", "dropped"}
      /\ \/ thread.step = "ended"
         \/ \A c \in Clients : client[c].stage # "waiting"
===============================================================================
