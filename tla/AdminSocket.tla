---------------------------- MODULE AdminSocket -----------------------------
(***************************************************************************)
(* The administrators' side of the process (src/src/main.rs): the socket   *)
(* file and its guard, the listener task, and the lines the administrators *)
(* send.  One connection is served at a time.  Lifecycle composes it with  *)
(* the start and the stop of the process.                                  *)
(*                                                                         *)
(* Abstracted: a connection is the line its client sends, complete at once *)
(* (a client that dies within a line is a line ended by the end of input); *)
(* what a command does to the reviews is Gateway's subject; any user may   *)
(* connect, as root can whatever the mode of the socket is.                *)
(***************************************************************************)
EXTENDS Naturals

CONSTANTS
    Lines,          \* the lines clients send
    MaxLength,      \* MAX_ADMIN_COMMAND_LENGTH
    MaxConnections, \* bound: connections of a behaviour
    Inodes,         \* the numbers the file system gives to files
    MaxReplaced     \* bound: how often others change the socket path

Line == [uid : {"owner", "other"}, len : Nat, ends : {"newline", "eof", "open"},
         utf8 : BOOLEAN, valid : BOOLEAN, takesReply : BOOLEAN]

ASSUME LineAssumption == Lines \subseteq Line /\ MaxLength \in Nat

ASSUME InodeAssumption == 0 \notin Inodes

NoLine == [uid |-> "nobody"]
NoInode == 0

(* An object at the socket path: the run of the gateway that bound it, or  *)
(* 0 when it is another's.                                                 *)
Object(by, inode, isSocket, guarded) ==
    [by |-> by, inode |-> inode, socket |-> isSocket, guarded |-> guarded]
Nothing == Object(0, NoInode, FALSE, FALSE)

VARIABLES
    sock,           \* the object at the socket path
    listening,      \* the inode of the listener's socket, while it is open
    guard,          \* AdminSocketPathGuard.inode
    task,           \* where run_admin_listener is
    aborted,        \* admin_task.abort() was called
    conn,           \* the line of the connection it serves
    reply,          \* the first word of the answer it is writing
    waiting,        \* connections not accepted yet
    connections,    \* how many there were
    replaced,       \* how often others changed the socket path
    ran,            \* the line whose command has taken effect
    wronged         \* the gateway removed a file others put there meanwhile

socketVars == <<sock, listening, guard, replaced, wronged>>
taskVars == <<task, aborted, conn, reply, waiting, connections, ran>>

AdminInit ==
    /\ sock = Nothing /\ listening = NoInode /\ guard = NoInode
    /\ replaced = 0 /\ wronged = FALSE
    /\ task = "none" /\ aborted = FALSE
    /\ conn = NoLine /\ reply = "none" /\ ran = NoLine
    /\ waiting = 0 /\ connections = 0

-----------------------------------------------------------------------------
(* The socket path.  A file's inode number is free again once nothing      *)
(* names the file and no process has it open.                              *)
FreeInodes == Inodes \ {listening, sock.inode}

(* UnixListener::bind: refused when something is at the path; the check    *)
(* with exists() before it only changes the message.                       *)
BindSocket(run) ==
    /\ sock = Nothing
    /\ \E inode \in FreeInodes :
        /\ sock' = Object(run, inode, TRUE, FALSE)
        /\ listening' = inode
    /\ UNCHANGED <<guard, replaced, wronged>>

(* Another process, or the operator, removes what is at the path or puts   *)
(* something else there.                                                   *)
ReplaceSocket(guarded) ==
    /\ replaced < MaxReplaced
    /\ replaced' = replaced + 1
    /\ \/ sock # Nothing /\ sock' = Nothing
       \/ \E inode \in FreeInodes, isSocket \in BOOLEAN :
            sock' = Object(0, inode, isSocket, guarded)
    /\ UNCHANGED <<listening, guard, wronged>>

(* AdminSocketPathGuard::new: it records what it finds at the path.        *)
GuardTakes == sock.socket

TakeGuard ==
    /\ GuardTakes
    /\ guard' = sock.inode
    /\ UNCHANGED <<sock, listening, replaced, wronged>>

(* remove_file(socket_path): by path, whatever is there now.               *)
RemoveSocket ==
    /\ sock' = Nothing
    /\ wronged' = (wronged \/ sock.guarded)

(* Mutant: any socket at the path is taken for the gateway's own.          *)
GuardMatchesAnySocket == sock.socket

(* Drop of the guard, its first step: is this still the same socket?       *)
GuardMatches == sock.socket /\ sock.inode = guard

-----------------------------------------------------------------------------
(* The listener task.                                                      *)
CloseListener(end) ==
    /\ task' = end
    /\ listening' = NoInode
    /\ waiting' = 0
    /\ conn' = NoLine /\ reply' = "none" /\ ran' = NoLine
    /\ UNCHANGED <<aborted, connections, sock, guard, replaced, wronged>>

NextConnection ==
    /\ task' = "accept" /\ conn' = NoLine /\ reply' = "none" /\ ran' = NoLine
    /\ UNCHANGED <<aborted, waiting, connections, socketVars>>

(* A client connects: the kernel keeps it waiting, from bind on.           *)
Connect ==
    /\ listening # NoInode /\ sock.inode = listening
    /\ connections < MaxConnections
    /\ connections' = connections + 1
    /\ waiting' = waiting + 1
    /\ UNCHANGED <<task, aborted, conn, reply, ran, socketVars>>

(* Mutant: whose connection it is matters only once it has sent a line.    *)
VerifyPeerLater(line) == TRUE

(* verify_admin_peer: the user the kernel recorded when it connected.      *)
VerifyPeer(line) == line.uid = "owner"

(* accept, then the peer check; asking for the peer may fail too.          *)
Accept ==
    /\ task = "accept" /\ waiting > 0
    /\ waiting' = waiting - 1
    /\ \E line \in Lines :
        \/ /\ VerifyPeer(line)
           /\ task' = "read" /\ conn' = line
        \/ UNCHANGED <<task, conn>>
    /\ UNCHANGED <<aborted, reply, connections, ran, socketVars>>

(* accept fails: the task ends with the error.                             *)
AcceptFails == task = "accept" /\ CloseListener("failed")

(* Mutant: the reader stops at the length that is still accepted.          *)
TakeMaximum == MaxLength

(* The bytes the reader hands out at most: reader.take(MAX + 1).           *)
Taken == MaxLength + 1

(* read_line returns: at the line end, the end of input or the limit.      *)
LineReturns == conn.ends # "open" \/ conn.len >= Taken

(* input.len().                                                            *)
BytesRead == IF conn.len < Taken THEN conn.len ELSE Taken

(* parse_admin_command accepts the line.                                   *)
IsCommand == BytesRead <= MaxLength /\ conn.valid

Answer(word) ==
    /\ task' = "reply" /\ reply' = word
    /\ UNCHANGED <<aborted, conn, waiting, connections, socketVars>>

(* An empty line and one that is not UTF-8 end the connection without an   *)
(* answer, and so does a client that goes away.                            *)
ReadNothing ==
    /\ task = "read"
    /\ LineReturns
    /\ conn.len = 0 \/ ~ conn.utf8
    /\ NextConnection

ReadFails == task = "read" /\ NextConnection

ReadCommand ==
    /\ task = "read"
    /\ LineReturns /\ BytesRead > 0 /\ conn.utf8
    /\ IF IsCommand
       THEN /\ task' = "command"
            /\ UNCHANGED <<aborted, conn, reply, waiting, connections, ran, socketVars>>
       ELSE Answer("ERROR") /\ UNCHANGED ran

(* format_admin_outcome_response.                                          *)
OkOutcomes ==
    {"Approved", "Rejected", "ClaimedAcknowledged", "CargoTestCompleted",
     "HttpPostCompleted"}
ErrorOutcomes ==
    {"WriteFailed", "CargoTestExecutionFailed", "CargoTestFailed",
     "HttpPostExecutionFailed", "HttpPostFailed", "CompletionAuditFailed",
     "ClaimedAcknowledgementDurabilityUncertain"}
FirstWord(outcome) == IF outcome \in OkOutcomes THEN "OK" ELSE "ERROR"

(* handle_admin_command_with_config has returned: without an await from    *)
(* the parsing to here.                                                    *)
RunCommand ==
    /\ task = "command"
    /\ ran' = conn
    /\ \E outcome \in OkOutcomes \cup ErrorOutcomes \cup {"Err"} :
        Answer(FirstWord(outcome))

(* write_all: it waits while the client takes no more; a client that went  *)
(* away makes it fail, which is only logged.                               *)
Reply ==
    /\ task = "reply"
    /\ conn.takesReply
    /\ NextConnection
ReplyFails == task = "reply" /\ NextConnection

(* An aborted task is dropped at an await, with listener and connection.   *)
(* It may run on for a while: an await that has not to wait does not stop  *)
(* it.                                                                     *)
Cancelled ==
    /\ aborted
    /\ task \in {"accept", "read", "reply"}
    /\ CloseListener("cancelled")

ListenerStep ==
    Accept \/ ReadNothing \/ ReadCommand \/ RunCommand \/ Reply \/ Cancelled
TaskEnded == task \in {"failed", "cancelled"}

(* The client in service keeps the others waiting: it sends no line, or    *)
(* takes no answer.                                                        *)
Stalled ==
    \/ task = "read" /\ conn.uid = "owner" /\ ~ LineReturns
    \/ task = "reply" /\ ~ conn.takesReply

-----------------------------------------------------------------------------
(* A command takes effect only if its client is the gateway's own user and *)
(* it came as a whole line of an accepted length: no prefix of a longer    *)
(* one is ever parsed, however the bytes fall on the reader's limit.  And  *)
(* only a command that took effect is answered OK.                         *)
OnlyOwnersLinesTakeEffect ==
    /\ ran # NoLine =>
        /\ ran = conn /\ ran.uid = "owner"
        /\ ran.valid /\ ran.len \in 1..MaxLength
    /\ reply = "OK" => ran = conn
=============================================================================
