------------------------------ MODULE Messages ------------------------------
(***************************************************************************)
(* The lines that travel between a client and the server, reduced to what  *)
(* the server's control flow and the properties tell apart.                *)
(*                                                                         *)
(* A client writes a line in two pieces, the encoded command and then the  *)
(* newline, so the byte stream of a connection is a sequence of fragments: *)
(* command bodies and Newline.  A body carries the number of the line, so  *)
(* that two messages are never confused.                                   *)
(***************************************************************************)
EXTENDS Naturals, Sequences

CONSTANTS
  Conns,    \* connections; also stands for a connection's mpsc sender
  Names,    \* user names as typed by the clients
  NoConn,   \* "no connection"
  NoName,   \* filler for messages that carry no name
  MaxLines  \* bound: lines written by one client

(* A client numbers the fragments it writes; a line has its body's number. *)
Ids == 0..2 * MaxLines

(* ClientMessage, plus the two other things a line can be: one that decode *)
(* rejects ("junk") and one longer than MAX_CLIENT_BUFFER_SIZE ("long").   *)
Commands == {"join", "send", "leave", "junk", "long"}
Body == {b \in [cmd : Commands, name : Names \cup {NoName}, id : Ids] :
           b.cmd = "join" => b.name \in Names}

Newline == [cmd |-> "newline", name |-> NoName, id |-> 0]

(* The empty read buffer; a line that is a lone newline decodes to it.     *)
NoBody == [cmd |-> "empty", name |-> NoName, id |-> 0]

(* The reasons the server gives in ServerMessage::Err.                     *)
Reasons == {"emptyMessage", "parseError", "mustJoinFirst",
            "invalidCommand", "invalidUsername", "usernameTaken",
            "lockTimeout", "messageTooLong", "roomTimeout"}

(* What the server puts into the room ...                                  *)
RoomMsg == [kind : {"joined", "left", "broadcast"},
            from : Conns, name : Names \cup {NoName}, id : Ids]

(* ... and what it answers to one client alone.                            *)
Reply == [kind : {"ok"} \cup Reasons,
          from : Conns, name : Names \cup {NoName}, id : Ids]

UserJoined(c, n)   == [kind |-> "joined", from |-> c, name |-> n, id |-> 0]
UserLeft(c, n)     == [kind |-> "left", from |-> c, name |-> n, id |-> 0]
Broadcast(c, n, i) == [kind |-> "broadcast", from |-> c, name |-> n, id |-> i]
Ok(c)              == [kind |-> "ok", from |-> c, name |-> NoName, id |-> 0]
Err(c, reason)     == [kind |-> reason, from |-> c, name |-> NoName, id |-> 0]

(* What ClientMessage::decode makes of a line: a command or a parse error. *)
DecodeError(b) == IF b = NoBody THEN "emptyMessage" ELSE "parseError"
=============================================================================
