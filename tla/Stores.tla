------------------------------- MODULE Stores -------------------------------
(***************************************************************************)
(* Inside the store's calls, on one collection: the JSON adapter reads the *)
(* whole file and writes it anew, through a temporary file that is renamed *)
(* over it; the Postgres adapter looks a row up and then writes it.        *)
(*                                                                         *)
(* A file is a name for an inode.  The temporary file's name is made of    *)
(* the process and the millisecond, so two writes of a collection in one   *)
(* millisecond use one name.                                               *)
(***************************************************************************)
EXTENDS Requests

CONSTANT Rows   \* the collection at the start

Row == [id : Int, a : Int, b : Int]

ASSUME StoresAssumption == Rows \subseteq Row /\ None \notin Row

Truncated == {None}   \* what an inode holds that a write has not yet filled

VARIABLES
    inodes,    \* contents of inodes: a set of rows, or Truncated
    file,      \* the inode that has the collection's name (a table, on Postgres)
    temp,      \* temporary names: [stamp -> inode, or None]
    serial,    \* history: the collection if every write took effect at once
    collided   \* history: two writes were made under one temporary name

storeVars == <<inodes, file, temp, serial, collided>>

Content == inodes[file]

Write == {"insert", "update", "mutate", "remove", "upsert"}

\* One row, id 0, is what updates are about; each call writes its own number.
NewRow(n) == [id |-> n, a |-> n, b |-> n]

Present(rows) == \E r \in rows : r.id = 0

\* A write's effect on a set of rows.  An update sets the fields of its patch, a
\* mutator those it assigns; neither does anything without the row.
Effect(op, n, rows) ==
    CASE op = "insert" -> rows \cup {NewRow(n)}
      [] op = "update" -> {IF r.id = 0 THEN [r EXCEPT !.a = n] ELSE r : r \in rows}
      [] op = "mutate" -> {IF r.id = 0 THEN [r EXCEPT !.b = n] ELSE r : r \in rows}
      [] op = "remove" -> {r \in rows : r.id # 0}
      [] op = "upsert" -> {r \in rows : r.id # 0} \cup {[NewRow(n) EXCEPT !.id = 0]}

Calls(c) ==
    /\ area = "store"
    /\ \E op \in Write : Accept(c, "store.read", [op |-> op])
    /\ UNCHANGED <<db, storeVars>>

NeedsRow(op) == op \in {"update", "mutate", "remove"}

(***************************************************************************)
(* json-store.ts                                                           *)
(***************************************************************************)
\* readCollection: a file that does not parse is an empty collection.
ReadCollection(c) ==
    /\ At(c, "store.read") /\ ~postgres
    /\ LET rows == IF Content = Truncated THEN {} ELSE Content
       IN  IF NeedsRow(loc[c].op) /\ ~Present(rows)
           THEN Respond(c)
           ELSE Goto(c, "store.open", [rows |-> Effect(loc[c].op, Number(c), rows)])
    /\ UNCHANGED <<db, storeVars>>

\* writeCollection, call by call: open (which truncates), write, rename.
Stamps == {loc[d].stamp : d \in {d \in Clients : pc[d] \in {"store.fill", "store.rename"}}}

\* Mutant: the collection's file itself is opened.
OpenCollection(c) ==
    /\ At(c, "store.open")
    /\ temp' = [temp EXCEPT ![Number(c)] = file]
    /\ inodes' = [inodes EXCEPT ![file] = Truncated]
    /\ Goto(c, "store.fill", [stamp |-> Number(c), inode |-> file])
    /\ UNCHANGED <<db, file, serial, collided>>

OpenTemp(c) ==
    /\ At(c, "store.open")
    /\ \E stamp \in {Number(c)} \cup Stamps :
          LET inode == IF temp[stamp] = None THEN Number(c) ELSE temp[stamp]
          IN  /\ temp' = [temp EXCEPT ![stamp] = inode]
              /\ inodes' = [inodes EXCEPT ![inode] = Truncated]
              /\ collided' = (collided \/ stamp # Number(c))
              /\ Goto(c, "store.fill", [stamp |-> stamp, inode |-> inode])
    /\ UNCHANGED <<db, file, serial>>

FillTemp(c) ==
    /\ At(c, "store.fill")
    /\ inodes' = [inodes EXCEPT ![loc[c].inode] = loc[c].rows]
    /\ Goto(c, "store.rename", Nothing)
    /\ UNCHANGED <<db, file, temp, serial, collided>>

\* A temporary name that is gone is an error.
RenameTemp(c) ==
    /\ At(c, "store.rename")
    /\ LET inode == temp[loc[c].stamp]
       IN  IF inode = None
           THEN UNCHANGED <<file, temp, serial>>
           ELSE /\ file' = inode
                /\ temp' = [temp EXCEPT ![loc[c].stamp] = None]
                /\ serial' = Effect(loc[c].op, Number(c), serial)
    /\ Respond(c)
    /\ UNCHANGED <<db, inodes, collided>>

(***************************************************************************)
(* prisma-store.ts                                                         *)
(***************************************************************************)
FindRow(c) ==
    /\ At(c, "store.read") /\ postgres
    /\ IF NeedsRow(loc[c].op) /\ ~Present(Content)
       THEN Respond(c)
       ELSE Goto(c, "store.write", [rows |-> {r \in Content : r.id = 0}])
    /\ UNCHANGED <<db, storeVars>>

\* update sends the patch, mutate the whole row as it was read; a row that has
\* gone, or come, meanwhile is an error.
WriteRow(c) ==
    /\ At(c, "store.write")
    /\ LET op == loc[c].op
           others == {r \in Content : r.id # 0}
           stale == Present(loc[c].rows) # Present(Content)
       IN  IF op # "insert" /\ stale
           THEN UNCHANGED <<inodes, serial>>
           ELSE /\ inodes' = [inodes EXCEPT ![file] =
                       IF op = "mutate"
                       THEN others \cup Effect(op, Number(c), loc[c].rows)
                       ELSE Effect(op, Number(c), Content)]
                /\ serial' = Effect(op, Number(c), serial)
    /\ Respond(c)
    /\ UNCHANGED <<db, file, temp, collided>>

StoresInit ==
    /\ inodes = [i \in 0 .. MaxRequests[area] |-> IF i = 0 THEN Rows ELSE Truncated]
    /\ file = 0
    /\ temp = [i \in 1 .. MaxRequests[area] |-> None]
    /\ serial = Rows
    /\ collided = FALSE

StoresStep(c) ==
    /\ area = "store"
    /\ \/ ReadCollection(c) \/ OpenTemp(c) \/ FillTemp(c) \/ RenameTemp(c)
       \/ FindRow(c) \/ WriteRow(c)

(***************************************************************************)
(* Properties.                                                             *)
(***************************************************************************)
\* Readers see the collection before a write or after it, never a part of it
\* (json-store.ts: written atomically), wherever a writer stops, unless two
\* writes shared a temporary name.
FileIsWhole == collided \/ Content # Truncated

\* No write is lost: the collection is what its writes make of it one after the
\* other, a write cut off half way counting as none.  The JSON files keep that
\* as long as no two writes of a collection are in flight together, Postgres as
\* long as none of two that are is a mutate, which writes back the row it read.
NoWriteIsLost ==
    \/ ~postgres /\ met # {}
    \/ postgres /\ \E pair \in met : "mutate" \in pair
    \/ Content = serial

\* What a caller may take a store's call for: one step, done or not done.
CallsAreAtomic == FileIsWhole /\ NoWriteIsLost
=============================================================================
