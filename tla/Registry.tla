------------------------------ MODULE Registry ------------------------------
(***************************************************************************)
(* UserRegistry (server/src/chat/user.rs): the map from normalised user    *)
(* names to users, behind one read-write lock.  A user is a name and the   *)
(* sender of a connection's channel; the sender is represented by the      *)
(* connection itself.  Each operation holds the lock for its whole body,   *)
(* so it is one step; the other outcome of try_write_for / try_read_for,   *)
(* LockTimeout, changes nothing and is left to the callers.                *)
(***************************************************************************)
EXTENDS Messages

CONSTANTS
  Keys,     \* normalised names (NormalizedKey)
  Trim,     \* what Username::new keeps of a name: it trims white space
  Fold,     \* case folding of a trimmed name
  Invalid   \* the names Username::new rejects

ASSUME RegistryAssumption ==
  /\ Trim \in [Names -> Names]
  /\ Fold \in [Names -> Keys]
  /\ Invalid \subseteq Names
  /\ NoConn \notin Conns

VARIABLE users   \* users[k]: the connection registered under key k, or NoConn

RegistryInit == users = [k \in Keys |-> NoConn]

(* Entry::Occupied                                                         *)
Taken(n) == users[Fold[n]] # NoConn

(* Mutant: insert without looking at the entry.                            *)
RegisterOverwrites(c, n) == users' = [users EXCEPT ![Fold[n]] = c]

(* Entry::Vacant: insert the user                                          *)
Register(c, n) ==
  /\ ~Taken(n)
  /\ users' = [users EXCEPT ![Fold[n]] = c]

(* remove() goes by the key alone, whoever the entry belongs to            *)
Unregister(n) == users' = [users EXCEPT ![Fold[n]] = NoConn]

(* The senders broadcast() collects under the read lock; exclude is None   *)
(* in its only call.                                                       *)
Senders == {c \in Conns : \E k \in Keys : users[k] = c}
=============================================================================
