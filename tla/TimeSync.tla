-------------------------------- MODULE TimeSync --------------------------------
(***************************************************************************)
(* The WebSocket connections over which students are told the time         *)
(* (serve/time_sync).  A connection has a handler that registers it, a     *)
(* goroutine that reads it (ListenMessage) and one that pings it           *)
(* (StartHeartbeatDetection).  One goroutine (startServe) owns the map of  *)
(* connections and serves the ticker and the two bounded channels; its     *)
(* broadcasts run on a bounded pool of goroutines, for which it waits.     *)
(*                                                                         *)
(* A send takes the connection's mutex, has a deadline and changes nothing *)
(* here, so it is one step.  A connection is lost when its client leaves   *)
(* or no longer answers: a read then fails, at the latest when its         *)
(* deadline passes, a send may fail or not.  The deadline runs from the    *)
(* connect and the pongs of a client that is there put it off only while   *)
(* its reader runs: one whose registration waits too long in the channel   *)
(* fails its first read although its client answers.  The service is       *)
(* started with context.Background(), so its branch for a cancelled        *)
(* context never runs.                                                     *)
(***************************************************************************)
EXTENDS Naturals, Sequences, FiniteSets, Functions

CONSTANTS
  Conn,      \* connections, one per call of handleInitTimeSyncConn
  ChanCap,   \* capacity of registerChanel and of unregisterChanel
  PoolSize   \* goroutines of the ants pool

ASSUME TimeSyncAssumption ==
  /\ IsFiniteSet(Conn)
  /\ ChanCap \in Nat \ {0} /\ PoolSize \in Nat \ {0}

VARIABLES
  link,        \* Conn -> whether its client is there
  sock,        \* Conn -> whether wsConn is open at the server
  handler,     \* Conn -> the next statement of its HTTP handler
  reader,      \* Conn -> that of ListenMessage
  beat,        \* Conn -> whether StartHeartbeatDetection runs
  register,    \* registerChanel
  unregister,  \* unregisterChanel
  clients,     \* the map of connections
  loop,        \* startServe: in its select, or in a broadcast
  todo,        \* connections the broadcast has not come to yet
  tasks,       \* Conn -> sends on the pool
  exited,      \* connections whose students were recorded as having left
  expired      \* connections whose read deadline passed before they were read

syncVars == <<link, sock, handler, reader, beat, register, unregister, clients, loop, todo, tasks, exited, expired>>

server == <<register, unregister, clients, loop, todo, tasks>>

SyncInit ==
  /\ link = [c \in Conn |-> "none"]
  /\ sock = [c \in Conn |-> "none"]
  /\ handler = [c \in Conn |-> "idle"]
  /\ reader = [c \in Conn |-> "off"]
  /\ beat = [c \in Conn |-> "off"]
  /\ register = <<>> /\ unregister = <<>>
  /\ clients = {}
  /\ loop = "select" /\ todo = {}
  /\ tasks = [c \in Conn |-> 0]
  /\ exited = {} /\ expired = {}

Lost(c) == link[c] = "gone" \/ sock[c] = "closed"

(* ReadMessage returns an error. *)
NoRead(c) == Lost(c) \/ c \in expired

-----------------------------------------------------------------------------
(* handleInitTimeSyncConn. *)

(* A client connects; without an examinee or a submission the handler tells   *)
(* it so and closes the connection, which is then never registered.           *)
Open(c) ==
  /\ handler[c] = "idle"
  /\ link' = [link EXCEPT ![c] = "up"]
  /\ beat' = [beat EXCEPT ![c] = "on"]
  /\ \E named \in BOOLEAN :
       /\ sock' = [sock EXCEPT ![c] = IF named THEN "open" ELSE "closed"]
       /\ handler' = [handler EXCEPT ![c] = IF named THEN "register" ELSE "done"]
  /\ UNCHANGED <<reader, server, exited, expired>>

(* srv.registerChanel <- newClient. *)
Register(c) ==
  /\ handler[c] = "register" /\ Len(register) < ChanCap
  /\ register' = Append(register, c)
  /\ handler' = [handler EXCEPT ![c] = "greet"]
  /\ UNCHANGED <<link, sock, reader, beat, unregister, clients, loop, todo, tasks, exited, expired>>

(* The first timestamp; if it cannot be sent the connection is closed. *)
Greet(c) ==
  /\ handler[c] = "greet"
  /\ handler' = [handler EXCEPT ![c] = "done"]
  /\ \/ sock[c] = "open" /\ UNCHANGED sock
     \/ Lost(c) /\ sock' = [sock EXCEPT ![c] = "closed"]
  /\ UNCHANGED <<link, reader, beat, server, exited, expired>>

-----------------------------------------------------------------------------
(* The reader and the heartbeat of a connection. *)

(* Variant: the connection is closed and the exit recorded first. *)
ReadFails_Exits(c) ==
  /\ reader[c] = "read" /\ NoRead(c)
  /\ reader' = [reader EXCEPT ![c] = "exit"]
  /\ UNCHANGED <<link, sock, handler, beat, server, exited, expired>>

(* ReadMessage fails: nobody is there, or the deadline has passed. *)
ReadFails(c) ==
  /\ reader[c] = "read" /\ NoRead(c)
  /\ reader' = [reader EXCEPT ![c] = "unregister"]
  /\ UNCHANGED <<link, sock, handler, beat, server, exited, expired>>

(* Variant: a full channel drops the connection's removal. *)
Unregister_Drops(c) ==
  /\ reader[c] = "unregister"
  /\ unregister' = IF Len(unregister) < ChanCap THEN Append(unregister, c) ELSE unregister
  /\ reader' = [reader EXCEPT ![c] = "close"]
  /\ UNCHANGED <<link, sock, handler, beat, register, clients, loop, todo, tasks, exited, expired>>

(* conn.unregisterChan <- conn. *)
Unregister(c) ==
  /\ reader[c] = "unregister" /\ Len(unregister) < ChanCap
  /\ unregister' = Append(unregister, c)
  /\ reader' = [reader EXCEPT ![c] = "close"]
  /\ UNCHANGED <<link, sock, handler, beat, register, clients, loop, todo, tasks, exited, expired>>

(* The deferred function: closing a connection that another goroutine has     *)
(* closed is an error, and returns before the exit is handled.                *)
CloseRead(c) ==
  /\ reader[c] = "close"
  /\ reader' = [reader EXCEPT ![c] = IF sock[c] = "open" THEN "exit" ELSE "done"]
  /\ sock' = [sock EXCEPT ![c] = "closed"]
  /\ UNCHANGED <<link, handler, beat, server, exited, expired>>

(* HandleExit, whose UPDATE may fail or find no row in a fitting status. *)
Exit(c) ==
  /\ reader[c] = "exit"
  /\ reader' = [reader EXCEPT ![c] = "done"]
  /\ exited' \in {exited, exited \cup {c}}
  /\ UNCHANGED <<link, sock, handler, beat, server, expired>>

(* A ping fails, and the heartbeat closes the connection. *)
BeatFails(c) ==
  /\ beat[c] = "on" /\ Lost(c)
  /\ beat' = [beat EXCEPT ![c] = "done"]
  /\ sock' = [sock EXCEPT ![c] = "closed"]
  /\ UNCHANGED <<link, handler, reader, server, exited, expired>>

-----------------------------------------------------------------------------
(* startServe. *)

(* Variant: the connection's reader is not started. *)
AddClient_Unread ==
  /\ loop = "select" /\ register # <<>>
  /\ register' = Tail(register)
  /\ clients' = clients \cup {Head(register)}
  /\ UNCHANGED <<link, sock, handler, reader, beat, unregister, loop, todo, tasks, exited, expired>>

AddClient ==
  /\ loop = "select" /\ register # <<>>
  /\ register' = Tail(register)
  /\ clients' = clients \cup {Head(register)}
  /\ reader' = [reader EXCEPT ![Head(register)] = "read"]
  /\ UNCHANGED <<link, sock, handler, beat, unregister, loop, todo, tasks, exited, expired>>

RemoveClient ==
  /\ loop = "select" /\ unregister # <<>>
  /\ unregister' = Tail(unregister)
  /\ clients' = clients \ {Head(unregister)}
  /\ UNCHANGED <<link, sock, handler, reader, beat, register, loop, todo, tasks, exited, expired>>

Broadcast ==
  /\ loop = "select"
  /\ loop' = "broadcast" /\ todo' = clients
  /\ UNCHANGED <<link, sock, handler, reader, beat, register, unregister, clients, tasks, exited, expired>>

(* The goroutines of the pool that have a send, counted by connection. *)
Busy == Cardinality({x \in Conn \X (1..PoolSize) : x[2] <= tasks[x[1]]})

(* pool.Submit waits for a goroutine of the pool. *)
PoolSubmit(c) ==
  /\ loop = "broadcast" /\ c \in todo /\ Busy < PoolSize
  /\ todo' = todo \ {c}
  /\ tasks' = [tasks EXCEPT ![c] = @ + 1]
  /\ UNCHANGED <<link, sock, handler, reader, beat, register, unregister, clients, loop, exited, expired>>

BroadcastEnds ==
  /\ loop = "broadcast" /\ todo = {}
  /\ loop' = "select"
  /\ UNCHANGED <<link, sock, handler, reader, beat, register, unregister, clients, todo, tasks, exited, expired>>

(* Variant: a send that failed does not give its goroutine back. *)
Send_Kept(c) ==
  /\ tasks[c] > 0 /\ ~Lost(c)
  /\ tasks' = [tasks EXCEPT ![c] = @ - 1]
  /\ UNCHANGED <<link, sock, handler, reader, beat, register, unregister, clients, loop, todo, exited, expired>>

(* sendCurrentTimestampMsg, at the latest when its deadline passes; that it   *)
(* failed is only logged.                                                     *)
Send(c) ==
  /\ tasks[c] > 0
  /\ tasks' = [tasks EXCEPT ![c] = @ - 1]
  /\ UNCHANGED <<link, sock, handler, reader, beat, register, unregister, clients, loop, todo, exited, expired>>

-----------------------------------------------------------------------------

(* The client leaves or no longer answers. *)
Lose(c) ==
  /\ link[c] = "up"
  /\ link' = [link EXCEPT ![c] = "gone"]
  /\ UNCHANGED <<sock, handler, reader, beat, server, exited, expired>>

(* StartHeartbeatDetection's read deadline passes while the connection waits  *)
(* for startServe; the pongs that have come are still unread.                 *)
DeadlinePasses(c) ==
  /\ sock[c] = "open" /\ reader[c] = "off"
  /\ expired' = expired \cup {c}
  /\ UNCHANGED <<link, sock, handler, reader, beat, server, exited>>

Server == \/ AddClient \/ RemoveClient \/ Broadcast \/ BroadcastEnds
          \/ \E c \in Conn : PoolSubmit(c) \/ Send(c)

(* What the goroutines of a connection go on to do once it is made. *)
Serve(c) == \/ Register(c) \/ Greet(c) \/ BeatFails(c)
            \/ ReadFails(c) \/ Unregister(c) \/ CloseRead(c) \/ Exit(c)

SyncNext == Server \/ \E c \in Conn : Open(c) \/ Serve(c) \/ Lose(c) \/ DeadlinePasses(c)

SyncSpec == SyncInit /\ [][SyncNext]_syncVars

(* The ticker fires, the goroutines run on, and a select that has a message   *)
(* ready again and again receives one.  The connections take finitely many    *)
(* steps, so it is enough that some of those enabled is taken.  Nobody has to *)
(* connect or to leave.                                                       *)
SyncFairness ==
  /\ WF_syncVars(Broadcast) /\ SF_syncVars(AddClient \/ RemoveClient)
  /\ WF_syncVars(BroadcastEnds \/ \E c \in Conn : PoolSubmit(c) \/ Send(c))
  /\ WF_syncVars(\E c \in Conn : Serve(c))

FairSyncSpec == SyncSpec /\ SyncFairness

-----------------------------------------------------------------------------
(* Properties. *)

(* Every variable keeps its type, the channels and the pool their capacity.   *)
SyncTypeOK ==
  /\ link \in [Conn -> {"none", "up", "gone"}]
  /\ sock \in [Conn -> {"none", "open", "closed"}]
  /\ handler \in [Conn -> {"idle", "register", "greet", "done"}]
  /\ reader \in [Conn -> {"off", "read", "unregister", "close", "exit", "done"}]
  /\ beat \in [Conn -> {"off", "on", "done"}]
  /\ register \in Seq(Conn) /\ Len(register) <= ChanCap
  /\ unregister \in Seq(Conn) /\ Len(unregister) <= ChanCap
  /\ clients \subseteq Conn /\ todo \subseteq clients
  /\ loop \in {"select", "broadcast"}
  /\ tasks \in [Conn -> 0..PoolSize] /\ Busy <= PoolSize
  /\ exited \subseteq Conn /\ expired \subseteq Conn

(* A connection is in the map exactly until its removal is received: none is  *)
(* left behind, and none is put back after its reader has gone.               *)
Tracked ==
  \A c \in Conn :
    c \in clients <=> reader[c] \in {"read", "unregister"} \/ c \in Range(unregister)

(* An exit counts against a student (exit_cnt): it is recorded only when the  *)
(* connection is closed and its removal handed in, and when the client is     *)
(* gone or was kept waiting for its reader until the read deadline passed.    *)
ExitsAreReal ==
  \A c \in exited :
    /\ link[c] = "gone" \/ c \in expired
    /\ sock[c] = "closed" /\ (c \in clients => c \in Range(unregister))

(* When a client is gone, its goroutines end, its connection is closed and    *)
(* its entry goes, however full the channels and the pool are.                *)
Released ==
  \A c \in Conn :
    link[c] = "gone" ~> /\ handler[c] = "done" /\ beat[c] = "done" /\ sock[c] = "closed"
                        /\ reader[c] \in {"off", "done"} /\ c \notin clients

(* Whoever has connected and stays is sent the time, again and again, unless  *)
(* its deadline passed before it was read: it then finds itself disconnected, *)
(* and is not kept on a connection that nobody serves.                        *)
ToldTheTime ==
  \A c \in Conn :
    handler[c] = "register" \/ reader[c] = "read"
      ~> \/ tasks[c] > 0
         \/ sock[c] = "closed" /\ (link[c] = "gone" \/ c \in expired)
=============================================================================
