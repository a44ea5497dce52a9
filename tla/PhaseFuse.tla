----------------------------- MODULE PhaseFuse -----------------------------
(***************************************************************************)
(* The reversible overlay of src/alloc/phase_fuse.c: every handler that    *)
(* changes a file first saves the original in a journal kept in memory,    *)
(* and a write to /.phase_undo plays the journal back from its end.        *)
(*                                                                         *)
(* fuse_main serves requests with several threads unless it is started     *)
(* with -s, and the journal has no lock: what a handler does between two   *)
(* accesses to the journal is an action of its own, and raced remembers    *)
(* that two handlers have been in the journal at once. From then on two    *)
(* entries can share a slot, and jn can go past the array (jlog has one    *)
(* slot more, for the memory behind it): the program may do anything, and  *)
(* nothing is said of it. The kernel's part, as the handlers rely on it:   *)
(* it creates only names that do not exist, and asks for nothing of such a *)
(* name before create is answered, opens and changes only regular files,   *)
(* and does not unlink an open file.                                       *)
(***************************************************************************)
EXTENDS Integers, FiniteSets

CONSTANTS Paths, Handles, Threads,
          Contents,      \* what a regular file can hold
          Empty,         \* the content of length 0
          Big,           \* contents longer than MAX_SAVE
          Absent, Link,  \* no such name; a name that is no regular file
          NoPath,
          JCap,          \* entries of the journal
          MaxFaults      \* bound on calls to the backing files that fail

ASSUME FuseAssumption ==
  /\ Empty \in Contents /\ Big \subseteq Contents \ {Empty}
  /\ Absent \notin Contents /\ Link \notin Contents /\ Absent # Link
  /\ NoPath \notin Paths
  /\ JCap \in Nat \ {0} /\ MaxFaults \in Nat

VARIABLES files,     \* the backing directory
          jlog, jn,  \* the journal: its array and how much of it counts
          fd,        \* fi->fh: the path opened, and whether it is still that file
          at,        \* where each thread is
          req,       \* the request it serves
          idx,       \* i of undo_all
          faults,
          base,      \* history: the files when the journal was last empty
          lost,      \* history: names that were changed without being saved
          raced      \* history: two handlers were in the journal at once

vars == <<files, jlog, jn, fd, at, req, idx, faults, base, lost, raced>>

Nodes  == Contents \union {Absent, Link}
Entry  == [path : Paths \union {NoPath}, existed : BOOLEAN, orig : Contents]
NoEntry == [path |-> NoPath, existed |-> FALSE, orig |-> Empty]
Closed == [path |-> NoPath, live |-> FALSE]
NoReq  == [op |-> "none", path |-> NoPath, handle |-> "none", to |-> Empty]

(* find_j *)
Journalled(p) == \E i \in 0 .. jn - 1 : jlog[i].path = p
IsOpen(p)     == \E h \in Handles : fd[h].path = p /\ fd[h].live

(* create makes the file before it puts the name into the journal. *)
BeingMade(p) == \E t \in Threads : req[t].op = "create" /\ req[t].path = p

(* A handler is in the journal from its look for the name to the count of its *)
(* entry, create from its change on, and undo as long as it runs.             *)
InJournal(t) == \/ at[t] \in {"entry", "count", "undo"}
                \/ at[t] = "save" /\ req[t].op = "create"

Enter(t) == raced' = (raced \/ \E u \in Threads \ {t} : InJournal(u))

FuseStart(on) ==
  /\ files \in (IF on THEN [Paths -> Nodes] ELSE {[p \in Paths |-> Absent]})
  /\ jlog = [i \in 0 .. JCap |-> NoEntry]
  /\ jn = 0
  /\ fd = [h \in Handles |-> Closed]
  /\ at = [t \in Threads |-> "idle"]
  /\ req = [t \in Threads |-> NoReq]
  /\ idx = [t \in Threads |-> 0]
  /\ faults = 0
  /\ base = files
  /\ lost = {}
  /\ raced = FALSE

Init == FuseStart(TRUE)

-----------------------------------------------------------------------------
(* Requests that save the original first: write, truncate, unlink. *)

Request(t, op, p, h, c) ==
  /\ at[t] = "idle"
  /\ at' = [at EXCEPT ![t] = "save"]
  /\ req' = [req EXCEPT ![t] = [op |-> op, path |-> p, handle |-> h, to |-> c]]
  /\ UNCHANGED <<files, jlog, jn, fd, idx, faults, base, lost, raced>>

Write(t, h, c) ==
  fd[h] # Closed /\ ~BeingMade(fd[h].path) /\ Request(t, "write", fd[h].path, h, c)
Truncate(t, p) ==
  files[p] \in Contents /\ ~BeingMade(p) /\ Request(t, "truncate", p, "none", Empty)
Unlink(t, p) ==
  files[p] # Absent /\ ~IsOpen(p) /\ ~BeingMade(p) /\ Request(t, "unlink", p, "none", Empty)

Reply(t) == at' = [at EXCEPT ![t] = "idle"] /\ req' = [req EXCEPT ![t] = NoReq]

(* Mutant: the slot behind the last one is used. *)
RoomMutant == jn <= JCap

Room == jn < JCap

(* find_j and the test of jn, of save_orig and of ph_create. *)
LookUp(t) ==
  LET p == req[t].path
      created == req[t].op = "create"
  IN  /\ at[t] = "save"
      /\ \/ /\ Journalled(p)
            /\ IF created THEN Reply(t)
               ELSE at' = [at EXCEPT ![t] = "change"] /\ UNCHANGED req
            /\ UNCHANGED lost
         \/ /\ ~Journalled(p) /\ ~Room
            /\ Reply(t)
            /\ lost' = IF created THEN lost \union {p} ELSE lost
         \/ /\ ~Journalled(p) /\ Room
            /\ at' = [at EXCEPT ![t] = "entry"]
            /\ UNCHANGED <<req, lost>>
      /\ Enter(t)
      /\ UNCHANGED <<files, jlog, jn, fd, idx, faults, base>>

(* Mutant: a file of length 0 is taken for one that was not there. *)
OriginalMutant(p) ==
  [path |-> p, existed |-> files[p] \in Contents \ {Empty},
   orig |-> IF files[p] \in Contents THEN files[p] ELSE Empty]

Original(p) ==
  [path |-> p, existed |-> files[p] \in Contents,
   orig |-> IF files[p] \in Contents THEN files[p] ELSE Empty]

PutEntry(t, e) ==
  /\ jlog' = [jlog EXCEPT ![jn] = e]
  /\ at' = [at EXCEPT ![t] = "count"]
  /\ UNCHANGED req

(* A file that is not there, or too large, or that cannot be read. *)
NotSaved(t) ==
  /\ req[t].op # "create"
  /\ \/ files[req[t].path] \in Big \union {Absent} /\ UNCHANGED faults
     \/ /\ files[req[t].path] \in Contents /\ faults < MaxFaults
        /\ faults' = faults + 1
  /\ Reply(t)
  /\ UNCHANGED <<jlog, lost>>

Saved(t) ==
  LET p == req[t].path
  IN  /\ req[t].op # "create" /\ files[p] \notin Big \union {Absent}
      /\ PutEntry(t, Original(p))
      /\ lost' = IF files[p] = Link THEN lost \union {p} ELSE lost
      /\ UNCHANGED faults

(* fread returns less than st_size. *)
SavedShort(t) ==
  LET p == req[t].path
  IN  /\ req[t].op # "create" /\ files[p] \in Contents \ Big
      /\ faults < MaxFaults /\ faults' = faults + 1
      /\ \E c \in Contents : PutEntry(t, [path |-> p, existed |-> TRUE, orig |-> c])
      /\ lost' = lost \union {p}

SavedAbsent(t) ==
  /\ req[t].op = "create"
  /\ PutEntry(t, [path |-> req[t].path, existed |-> FALSE, orig |-> Empty])
  /\ UNCHANGED <<lost, faults>>

(* The rest of save_orig and ph_create up to jn++, and the error returns. *)
Fill(t) ==
  /\ at[t] = "entry"
  /\ NotSaved(t) \/ Saved(t) \/ SavedShort(t) \/ SavedAbsent(t)
  /\ UNCHANGED <<files, jn, fd, idx, base, raced>>

CountEntry(t) ==
  /\ at[t] = "count"
  /\ jn' = jn + 1
  /\ IF req[t].op = "create" THEN Reply(t)
     ELSE at' = [at EXCEPT ![t] = "change"] /\ UNCHANGED req
  /\ UNCHANGED <<files, jlog, fd, idx, faults, base, lost, raced>>

(* The handles of a file that loses its name: a write through one of them no  *)
(* longer reaches a name.                                                    *)
Unnamed(p) == [h \in Handles |-> IF fd[h].path = p THEN [fd[h] EXCEPT !.live = FALSE] ELSE fd[h]]

(* The change itself. *)
Change(t) ==
  LET r == req[t]
  IN  /\ at[t] = "change"
      /\ files' =
           CASE r.op = "write" ->
                  IF fd[r.handle].live THEN [files EXCEPT ![r.path] = r.to] ELSE files
             [] r.op = "truncate" ->
                  IF files[r.path] = Absent THEN files ELSE [files EXCEPT ![r.path] = r.to]
             [] r.op = "unlink" -> [files EXCEPT ![r.path] = Absent]
      /\ fd' = IF r.op = "unlink" THEN Unnamed(r.path) ELSE fd
      /\ Reply(t)
      /\ UNCHANGED <<jlog, jn, idx, faults, base, lost, raced>>

-----------------------------------------------------------------------------
(* create, open, release: the first two change a file before it is saved, or  *)
(* without saving it.                                                        *)

Create(t, p, h) ==
  /\ at[t] = "idle"
  /\ files[p] = Absent /\ fd[h] = Closed
  /\ files' = [files EXCEPT ![p] = Empty]
  /\ fd' = [fd EXCEPT ![h] = [path |-> p, live |-> TRUE]]
  /\ at' = [at EXCEPT ![t] = "save"]
  /\ req' = [req EXCEPT ![t] = [op |-> "create", path |-> p, handle |-> h, to |-> Empty]]
  /\ Enter(t)
  /\ UNCHANGED <<jlog, jn, idx, faults, base, lost>>

Open(t, p, h, trunc) ==
  /\ at[t] = "idle"
  /\ files[p] \in Contents /\ fd[h] = Closed /\ ~BeingMade(p)
  /\ fd' = [fd EXCEPT ![h] = [path |-> p, live |-> TRUE]]
  /\ files' = IF trunc THEN [files EXCEPT ![p] = Empty] ELSE files
  /\ lost' = IF trunc /\ ~Journalled(p) /\ files[p] # Empty THEN lost \union {p} ELSE lost
  /\ raced' = (raced \/ (trunc /\ \E u \in Threads : at[u] = "undo"))
  /\ UNCHANGED <<jlog, jn, at, req, idx, faults, base>>

Release(h) ==
  /\ fd[h] # Closed
  /\ \A t \in Threads : req[t].handle # h
  /\ fd' = [fd EXCEPT ![h] = Closed]
  /\ UNCHANGED <<files, jlog, jn, at, req, idx, faults, base, lost, raced>>

-----------------------------------------------------------------------------
(* undo_all, one entry a step, the last first. *)

StartUndo(t) ==
  /\ at[t] = "idle"
  /\ at' = [at EXCEPT ![t] = "undo"]
  /\ idx' = [idx EXCEPT ![t] = jn - 1]
  /\ raced' = (raced \/ \E u \in Threads \ {t} : InJournal(u) \/ at[u] = "change")
  /\ UNCHANGED <<files, jlog, jn, fd, req, faults, base, lost>>

PutBack(p, e) ==
  /\ files' = IF p \notin Paths THEN files
              ELSE IF e.existed THEN [files EXCEPT ![p] = e.orig]
              ELSE [files EXCEPT ![p] = Absent]
  /\ fd' = IF e.existed THEN fd ELSE Unnamed(p)
  /\ UNCHANGED <<lost, faults>>

(* fopen or unlink fails, or fwrite writes less: the file stays as it is, or  *)
(* has other contents, and the entry is dropped all the same.                *)
PutBackFails(p, e) ==
  /\ p \in Paths /\ faults < MaxFaults
  /\ faults' = faults + 1
  /\ lost' = lost \union {p}
  /\ \/ UNCHANGED files
     \/ e.existed /\ \E c \in Contents : files' = [files EXCEPT ![p] = c]
  /\ UNCHANGED fd

UndoEntry(t) ==
  /\ at[t] = "undo" /\ idx[t] >= 0
  /\ LET e == jlog[idx[t]]
     IN  PutBack(e.path, e) \/ PutBackFails(e.path, e)
  /\ idx' = [idx EXCEPT ![t] = @ - 1]
  /\ UNCHANGED <<jlog, jn, at, req, base, raced>>

(* Mutant: the entry at index 0 is left out (`i > 0`). *)
EndUndoMutant(t) ==
  /\ at[t] = "undo" /\ idx[t] <= 0
  /\ jn' = 0 /\ Reply(t)
  /\ base' = files /\ lost' = {}
  /\ UNCHANGED <<files, jlog, fd, idx, faults, raced>>

EndUndo(t) ==
  /\ at[t] = "undo" /\ idx[t] < 0
  /\ jn' = 0 /\ Reply(t)
  /\ base' = files /\ lost' = {}
  /\ UNCHANGED <<files, jlog, fd, idx, faults, raced>>

Next ==
  \/ \E t \in Threads :
       \/ \E h \in Handles, c \in Contents : Write(t, h, c)
       \/ \E p \in Paths : Truncate(t, p) \/ Unlink(t, p)
       \/ \E p \in Paths, h \in Handles : Create(t, p, h)
       \/ \E p \in Paths, h \in Handles, trunc \in BOOLEAN : Open(t, p, h, trunc)
       \/ LookUp(t) \/ Fill(t) \/ CountEntry(t) \/ Change(t)
       \/ StartUndo(t) \/ UndoEntry(t) \/ EndUndo(t)
  \/ \E h \in Handles : Release(h)

Spec == Init /\ [][Next]_vars

-----------------------------------------------------------------------------
TypeOK ==
  /\ files \in [Paths -> Nodes]
  /\ jlog \in [0 .. JCap -> Entry]
  /\ jn \in 0 .. JCap
  /\ fd \in [Handles -> [path : Paths \union {NoPath}, live : BOOLEAN]]
  /\ at \in [Threads -> {"idle", "save", "entry", "count", "change", "undo"}]
  /\ idx \in [Threads -> -1 .. JCap - 1]
  /\ base \in [Paths -> Nodes]
  /\ lost \subseteq Paths
  /\ raced \in BOOLEAN

(* What playing the journal back now would make of a name: its oldest entry  *)
(* has the last word.                                                        *)
Oldest(p) == jlog[CHOOSE i \in 0 .. jn - 1 :
                    jlog[i].path = p /\ \A k \in 0 .. i - 1 : jlog[k].path # p]
Undone(p) ==
  IF ~Journalled(p) THEN files[p]
  ELSE IF Oldest(p).existed THEN Oldest(p).orig ELSE Absent

(* At every moment the journal can give back the files as they were when it  *)
(* was last empty (phase_fuse.c 3-6), but for names that open truncated, that *)
(* were created with the journal full, that were no regular files or that an *)
(* error of the backing file system touched (save_orig, undo_all, ph_create). *)
JournalHoldsBase ==
  \A p \in Paths \ lost : Journalled(p) \/ ~BeingMade(p) => Undone(p) = base[p]

(* As long as no two handlers have been in the journal at once, whatever else *)
(* they do side by side: what undo will rely on is there when a handler       *)
(* changes a file, as many entries as are counted, each with the contents its *)
(* file had before (phase_fuse.c 37-55, 146-155).                            *)
FuseSafe == raced \/ (TypeOK /\ JournalHoldsBase)

(* A write to /.phase_undo that has been answered leaves those files as they *)
(* were, also when another restoration failed (undo_all), provided that no   *)
(* handler was in the journal beside another or beside an undo.              *)
UndoRestores ==
  [][\A t \in Threads :
       ~raced /\ at[t] = "undo" /\ at'[t] = "idle" =>
         \A p \in Paths \ lost : files[p] = base[p]]_vars
=============================================================================
