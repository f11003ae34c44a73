------------------------------- MODULE Store -------------------------------
(***************************************************************************)
(* The shared directory: the threads of the server work in it at the same  *)
(* time, one system call at a time.  put creates a file under a name       *)
(* nobody has, writes to it and removes it when anything failed; get opens *)
(* a file, asks for its size by name and reads to its end; mkdir looks and *)
(* then creates; ls takes the names and then looks at each.  The messages  *)
(* of put and get are in Upload and Download; here a get that has told a   *)
(* size other than that of what it sends leaves its two ends out of step   *)
(* ("astray"), and nothing more of that connection is modelled.            *)
(***************************************************************************)
EXTENDS Integers, Sequences

CONSTANTS
  Threads,    \* the threads, each serving one client
  Bases,      \* the names, without the "_1" behind them
  MaxTyped,   \* bound: number of "_1" behind a name that a user types or open fails on
  MaxSuffix,  \* bound: number of "_1" behind a name
  MaxFrags,   \* bound: fragments of a file
  MaxOps,     \* bound: commands of all clients together
  Faults      \* what may go wrong, a subset of AllFaults

AllFaults ==
  { "nofd",     \* open fails although the name is free
    "nospace",  \* mkdir fails although the name is free
    "crash" }   \* the process ends anywhere; it is started again

ASSUME StoreAssumption ==
  /\ MaxSuffix \in Nat /\ MaxTyped \in 0 .. MaxSuffix
  /\ MaxFrags \in Nat \ {0} /\ MaxOps \in Nat
  /\ Faults \subseteq AllFaults

VARIABLES
  entry,    \* the directory: what each name stands for
  data,     \* contents of the file each upload creates
  want,     \* fragments each upload announced
  saved,    \* names reported "save success"
  pc,       \* where each thread is
  cmds,     \* commands begun so far
  own,      \* the number of each thread's command
  name,     \* filename or dir_name
  fd,       \* the open file
  size,     \* file_size of a get
  pos,      \* fragments read of it
  left, kind, listed,  \* ls: entries to come, file_info, what it has sent
  reply,    \* what mkdir answered last
  had       \* for the properties: what was saved or a directory when get or ls began

diskVars == <<entry, data, want, saved>>
getVars  == <<size, pos>>
lsVars   == <<left, kind, listed>>
locals   == <<fd, getVars, lsVars, had>>
vars == <<diskVars, pc, cmds, own, name, locals, reply>>

\* A base with k times "_1" behind it.
Names   == Bases \X (0 .. MaxSuffix)
Typed   == Bases \X (0 .. MaxTyped)

\* Mutant of Longer: the "_1" is written over, not behind.
LongerSame(n) == <<n[1], n[2]>>

\* sprintf(filename + strlen(filename), "_1").
Longer(n) == <<n[1], n[2] + 1>>

\* An upload is known by the number of its command, and the file it creates too.
Uploads == 1 .. MaxOps

Free      == [kind |-> "free"]
Dir       == [kind |-> "dir"]
FileOf(u) == [kind |-> "file", of |-> u]
Frag(u, k) == [of |-> u, nth |-> k]

StoreInit ==
  /\ entry = [n \in Names |-> Free] /\ saved = {}
  /\ data = [u \in Uploads |-> <<>>] /\ want = [u \in Uploads |-> 0]
  /\ pc = [t \in Threads |-> "idle"] /\ cmds = 0 /\ own = [t \in Threads |-> 0]
  /\ name \in [Threads -> Typed] /\ fd = [t \in Threads |-> Free]
  /\ size = [t \in Threads |-> 0] /\ pos = [t \in Threads |-> 0]
  /\ left = [t \in Threads |-> {}] /\ listed = [t \in Threads |-> {}]
  /\ kind = [t \in Threads |-> "other"]
  /\ reply = [t \in Threads |-> 0] /\ had = [t \in Threads |-> {}]

----------------------------------------------------------------------------

Goto(t, at) == pc' = [pc EXCEPT ![t] = at]

\* The locals of a command go with it.
Return(t) ==
  /\ Goto(t, "idle")
  /\ fd' = [fd EXCEPT ![t] = Free]
  /\ size' = [size EXCEPT ![t] = 0] /\ pos' = [pos EXCEPT ![t] = 0]
  /\ left' = [left EXCEPT ![t] = {}] /\ listed' = [listed EXCEPT ![t] = {}]
  /\ kind' = [kind EXCEPT ![t] = "other"] /\ had' = [had EXCEPT ![t] = {}]

\* The next command of t's client is about name n; answer is what mkdir replies at once.
Begin(t, n, answer) ==
  /\ pc[t] = "idle" /\ cmds < MaxOps
  /\ cmds' = cmds + 1 /\ own' = [own EXCEPT ![t] = cmds + 1]
  /\ name' = [name EXCEPT ![t] = n]
  /\ reply' = [reply EXCEPT ![t] = answer]

\* What get and ls may count on.
Settled == saved \cup {n \in Names : entry[n] = Dir}

(* put *)

Put(t, n, w) ==
  /\ Begin(t, n, 0)
  /\ want' = [want EXCEPT ![cmds + 1] = w]
  /\ Goto(t, "create")
  /\ UNCHANGED <<entry, data, saved, locals>>

\* Mutant of Create: without O_EXCL.
CreateShared(t) ==
  /\ pc[t] = "create" /\ entry[name[t]] # Dir
  /\ fd' = [fd EXCEPT ![t] = IF entry[name[t]] = Free THEN FileOf(own[t]) ELSE entry[name[t]]]
  /\ entry' = [entry EXCEPT ![name[t]] = fd'[t]]
  /\ Goto(t, "write")
  /\ UNCHANGED <<data, want, saved, cmds, own, name, getVars, lsVars, reply, had>>

\* open(O_CREAT | O_EXCL); on any error the name grows by "_1".
Create(t) ==
  /\ pc[t] = "create"
  /\ \/ /\ entry[name[t]] = Free
        /\ fd' = [fd EXCEPT ![t] = FileOf(own[t])]
        /\ entry' = [entry EXCEPT ![name[t]] = FileOf(own[t])]
        /\ Goto(t, "write")
        /\ UNCHANGED name
     \/ /\ \/ entry[name[t]] # Free
           \/ "nofd" \in Faults /\ name[t] \in Typed
        /\ Longer(name[t]) \in Names
        /\ name' = [name EXCEPT ![t] = Longer(@)]
        /\ UNCHANGED <<entry, fd, pc>>
  /\ UNCHANGED <<data, want, saved, cmds, own, getVars, lsVars, had, reply>>

\* A fragment is verified and written.
Write(t) ==
  /\ pc[t] = "write" /\ Len(data[fd[t].of]) < want[own[t]]
  /\ data' = [data EXCEPT ![fd[t].of] = Append(@, Frag(own[t], Len(@) + 1))]
  /\ UNCHANGED <<entry, want, saved, pc, cmds, own, name, locals, reply>>

\* Mutant of PutDone: "save success" whatever has come.
PutDoneEarly(t) ==
  /\ pc[t] = "write"
  /\ saved' = saved \cup {name[t]}
  /\ Return(t)
  /\ UNCHANGED <<entry, data, want, cmds, own, name, reply>>

PutDone(t) ==
  /\ pc[t] = "write" /\ Len(data[fd[t].of]) = want[own[t]]
  /\ saved' = saved \cup {name[t]}
  /\ Return(t)
  /\ UNCHANGED <<entry, data, want, cmds, own, name, reply>>

\* A fragment that fails to come, to verify or to be written: success = 0, close.
PutFails(t) ==
  /\ pc[t] = "write"
  /\ Goto(t, "remove")
  /\ UNCHANGED <<diskVars, cmds, own, name, locals, reply>>

\* Mutant of Remove: the name the client asked for.
RemoveAsked(t) ==
  /\ pc[t] = "remove"
  /\ entry' = [entry EXCEPT ![<<name[t][1], 0>>] = Free]
  /\ Return(t)
  /\ UNCHANGED <<data, want, saved, cmds, own, name, reply>>

\* remove(full_path), by name.
Remove(t) ==
  /\ pc[t] = "remove"
  /\ entry' = [entry EXCEPT ![name[t]] = Free]
  /\ Return(t)
  /\ UNCHANGED <<data, want, saved, cmds, own, name, reply>>

(* get *)

\* open(O_RDONLY), which succeeds on a directory too.
Get(t, n) ==
  /\ Begin(t, n, 0)
  /\ \/ entry[n] = Free /\ UNCHANGED <<pc, fd, had>>
     \/ /\ entry[n] # Free
        /\ fd' = [fd EXCEPT ![t] = entry[n]]
        /\ had' = [had EXCEPT ![t] = saved]
        /\ Goto(t, "stat")
  /\ UNCHANGED <<diskVars, getVars, lsVars>>

\* The fragments there are to read in what is open, or has a name.
Frags(e) == IF e.kind = "file" THEN Len(data[e.of]) ELSE 0

\* Mutant of Stat: the size of a name that is gone is the -1 of stat.
StatGone(t) ==
  /\ pc[t] = "stat"
  /\ size' = [size EXCEPT ![t] = IF entry[name[t]] = Free THEN -1 ELSE Frags(entry[name[t]])]
  /\ pos' = [pos EXCEPT ![t] = 0]
  /\ Goto(t, "read")
  /\ UNCHANGED <<diskVars, cmds, own, name, fd, lsVars, reply, had>>

\* stat(full_path): by name.  A directory has a size too; when the name is gone
\* obj holds what was there.
Stat(t) ==
  /\ pc[t] = "stat"
  /\ \E n \in 0 .. MaxFrags :
       /\ CASE entry[name[t]].kind = "file" -> n = Frags(entry[name[t]])
            [] entry[name[t]].kind = "dir"  -> n > 0
            [] OTHER                        -> TRUE
       /\ size' = [size EXCEPT ![t] = n]
  /\ pos' = [pos EXCEPT ![t] = 0]
  /\ Goto(t, "read")
  /\ UNCHANGED <<diskVars, cmds, own, name, fd, lsVars, reply, had>>

\* A fragment is read, sent and answered for.  The client's last verdict passes for
\* that on one fragment too many; the recv after it waits.
Read(t) ==
  /\ pc[t] = "read" /\ pos[t] < Frags(fd[t]) /\ pos[t] <= size[t]
  /\ pos' = [pos EXCEPT ![t] = @ + 1]
  /\ UNCHANGED <<diskVars, pc, cmds, own, name, fd, size, lsVars, reply, had>>

\* End of file, and the last verdict; it is there when the client has had what it was told.
GetEnd(t) ==
  /\ pc[t] = "read" /\ (pos[t] >= Frags(fd[t]) \/ pos[t] > size[t])
  /\ \/ pos[t] = size[t] /\ Return(t)
     \/ pos[t] # size[t] /\ Goto(t, "astray") /\ UNCHANGED locals
  /\ UNCHANGED <<diskVars, cmds, own, name, reply>>

(* mkdir *)

\* stat, and the answer when there is something.
Mkdir(t, n) ==
  /\ \/ entry[n] = Free /\ Begin(t, n, 0) /\ Goto(t, "mkdir")
     \/ entry[n] = Dir /\ Begin(t, n, 0) /\ UNCHANGED pc
     \/ entry[n].kind = "file" /\ Begin(t, n, -1) /\ UNCHANGED pc
  /\ UNCHANGED <<diskVars, locals>>

\* Mutant of MakeDir: the result of mkdir is not looked at.
MakeDirUnchecked(t) ==
  /\ pc[t] = "mkdir"
  /\ entry' = [entry EXCEPT ![name[t]] = IF @ = Free THEN Dir ELSE @]
  /\ reply' = [reply EXCEPT ![t] = 1]
  /\ Goto(t, "idle")
  /\ UNCHANGED <<data, want, saved, cmds, own, name, locals>>

\* mkdir(), and the answer: 1 when it has made the directory.
MakeDir(t) ==
  /\ pc[t] = "mkdir"
  /\ \/ /\ entry[name[t]] = Free
        /\ entry' = [entry EXCEPT ![name[t]] = Dir]
        /\ reply' = [reply EXCEPT ![t] = 1]
     \/ /\ entry[name[t]] # Free \/ "nospace" \in Faults
        /\ reply' = [reply EXCEPT ![t] = -1]
        /\ UNCHANGED entry
  /\ Goto(t, "idle")
  /\ UNCHANGED <<data, want, saved, cmds, own, name, locals>>

(* ls *)

Kinds == {"dir", "file", "other"}

\* opendir and the names; file_info is not written yet.
Ls(t) ==
  /\ Begin(t, name[t], 0)
  /\ left' = [left EXCEPT ![t] = {n \in Names : entry[n] # Free}]
  /\ listed' = [listed EXCEPT ![t] = {}]
  /\ \E k \in Kinds : kind' = [kind EXCEPT ![t] = k]
  /\ had' = [had EXCEPT ![t] = Settled]
  /\ Goto(t, "ls")
  /\ UNCHANGED <<diskVars, fd, getVars>>

\* Mutant of LsEntry: the kind of the entry before is sent.
LsEntryStale(t) ==
  /\ pc[t] = "ls"
  /\ \E n \in left[t] :
       /\ left' = [left EXCEPT ![t] = @ \ {n}]
       /\ listed' = [listed EXCEPT ![t] = @ \cup {<<n, kind[t]>>}]
       /\ kind' = [kind EXCEPT ![t] = entry[n].kind]
  /\ UNCHANGED <<diskVars, pc, cmds, own, name, fd, getVars, reply, had>>

\* lstat of the next entry; of one that is gone file_info tells the kind of the one
\* before.  What is neither file nor directory is left out.
LsEntry(t) ==
  /\ pc[t] = "ls"
  /\ \E n \in left[t] :
       /\ left' = [left EXCEPT ![t] = @ \ {n}]
       /\ kind' = [kind EXCEPT ![t] = IF entry[n] = Free THEN @ ELSE entry[n].kind]
       /\ listed' = [listed EXCEPT ![t] =
                       IF kind'[t] = "other" THEN @ ELSE @ \cup {<<n, kind'[t]>>}]
  /\ UNCHANGED <<diskVars, pc, cmds, own, name, fd, getVars, reply, had>>

LsEnd(t) ==
  /\ pc[t] = "ls" /\ left[t] = {}
  /\ Return(t)
  /\ UNCHANGED <<diskVars, cmds, own, name, reply>>

----------------------------------------------------------------------------

\* The process ends and is started again: the disk is all that is left.
Crash ==
  /\ "crash" \in Faults
  /\ pc' = [t \in Threads |-> "idle"] /\ fd' = [t \in Threads |-> Free]
  /\ size' = [t \in Threads |-> 0] /\ pos' = [t \in Threads |-> 0]
  /\ left' = [t \in Threads |-> {}] /\ listed' = [t \in Threads |-> {}]
  /\ kind' = [t \in Threads |-> "other"] /\ had' = [t \in Threads |-> {}]
  /\ UNCHANGED <<diskVars, cmds, own, name, reply>>

Client(t) ==
  \/ Ls(t)
  \/ \E n \in Typed : Get(t, n) \/ Mkdir(t, n) \/ \E w \in 1 .. MaxFrags : Put(t, n, w)

Thread(t) ==
  \/ Create(t) \/ Write(t) \/ PutDone(t) \/ PutFails(t) \/ Remove(t)
  \/ Stat(t) \/ Read(t) \/ GetEnd(t)
  \/ MakeDir(t) \/ LsEntry(t) \/ LsEnd(t)

StoreNext == Crash \/ \E t \in Threads : Client(t) \/ Thread(t)

StoreSpec == StoreInit /\ [][StoreNext]_vars

\* Threads keep being scheduled, and clients answer or leave; users owe nothing.
StoreFairSpec == StoreSpec /\ \A t \in Threads : WF_vars(Thread(t))

----------------------------------------------------------------------------
(* What the directory promises. *)

Entries == {Free, Dir} \cup {FileOf(u) : u \in Uploads}

TypeOK ==
  /\ entry \in [Names -> Entries]
  /\ data \in [Uploads -> Seq([of : Uploads, nth : Nat])]
  /\ want \in [Uploads -> Nat] /\ saved \subseteq Names
  /\ pc \in [Threads -> {"idle", "create", "write", "remove", "stat", "read", "astray",
                         "mkdir", "ls"}]
  /\ cmds \in 0 .. MaxOps /\ own \in [Threads -> 0 .. MaxOps] /\ name \in [Threads -> Names]
  /\ fd \in [Threads -> Entries]
  /\ size \in [Threads -> Nat] /\ pos \in [Threads -> Nat]
  /\ left \in [Threads -> SUBSET Names] /\ kind \in [Threads -> Kinds]
  /\ listed \in [Threads -> SUBSET (Names \X Kinds)]
  /\ reply \in [Threads -> {-1, 0, 1}] /\ had \in [Threads -> SUBSET Names]

\* s is the first fragments of upload u, in order.
OwnFrags(s, u) == \A k \in 1 .. Len(s) : s[k] = Frag(u, k)

\* Uploads do not mix, whatever names they ask for at the same time: a file holds
\* the fragments of the one upload that created it, and all of them once reported.
UploadsApart ==
  \A n \in Names, u \in Uploads : entry[n] = FileOf(u) =>
    OwnFrags(data[u], u) /\ (n \in saved => Len(data[u]) = want[u])

\* Of all the clients that ask for a directory at most one is told that it was made.
MkdirOnce ==
  \A t1, t2 \in Threads :
    reply[t1] = 1 /\ reply[t2] = 1 /\ name[t1] = name[t2] => t1 = t2

\* A get of a file that was saved when it began sends that file, all of it, in step
\* with its client, whatever the other threads do to names meanwhile.
GetWhole ==
  \A t \in Threads : pc[t] \in {"read", "astray"} /\ name[t] \in had[t] =>
    /\ pc[t] = "read" /\ fd[t] = entry[name[t]]
    /\ size[t] = want[fd[t].of] /\ Frags(fd[t]) = size[t]

\* ls tells of everything saved or made before it began, each as what it is, though
\* names come and go between its opendir and its lstat.
ListsSettled ==
  \A t \in Threads : pc[t] = "ls" /\ left[t] = {} =>
    \A n \in had[t] : <<n, entry[n].kind>> \in listed[t]

\* Every command comes to its end, but for a get that goes astray.
CommandsEnd == \A t \in Threads : pc[t] # "idle" ~> pc[t] \in {"idle", "astray"}

\* What has been reported to be under each name.
Whole(frags) == [kind |-> "file", holds |-> frags]

Reported == [n \in Names |->
  CASE n \in saved -> Whole(data[entry[n].of])
    [] n \notin saved /\ entry[n] = Dir -> Dir
    [] OTHER -> Free]

\* The w fragments of upload u.
AllOf(u, w) == Whole([k \in 1 .. w |-> Frag(u, k)])

Wholes == {AllOf(u, w) : u \in Uploads, w \in 1 .. MaxFrags}

Directory == INSTANCE Shelf WITH shelf <- Reported

\* Files and directories once reported stay, whole and unchanged, through failed
\* uploads to the same name, crashes and restarts.
ImplementsShelf == Directory!ShelfSpec

----------------------------------------------------------------------------
(* The inductive invariant behind the theorems. *)

Puts == {"create", "write", "remove"}

\* A command has a number of its own.
Numbered ==
  /\ \A t \in Threads : own[t] \in 0 .. cmds /\ (pc[t] # "idle" => own[t] > 0)
  /\ \A t1, t2 \in Threads : own[t1] = own[t2] /\ own[t1] > 0 => t1 = t2

\* A file stands under one name, and only commands begun so far have created one.
OneName ==
  /\ \A n \in Names, u \in Uploads : entry[n] = FileOf(u) => u <= cmds
  /\ \A n1, n2 \in Names, u \in Uploads :
       entry[n1] = FileOf(u) /\ entry[n2] = FileOf(u) => n1 = n2

\* From create to remove an upload has its name to itself.
Holds ==
  \A t \in Threads :
    /\ pc[t] = "create" => \A n \in Names : entry[n] # FileOf(own[t])
    /\ pc[t] \in {"write", "remove"} => entry[name[t]] = FileOf(own[t]) /\ name[t] \notin saved
    /\ pc[t] = "write" => fd[t] = FileOf(own[t])
    /\ pc[t] \in Puts => want[own[t]] \in 1 .. MaxFrags

\* A file has only its own upload's fragments, and all of them once reported.
Filled ==
  /\ \A u \in Uploads : OwnFrags(data[u], u)
  /\ \A n \in saved : \E u \in Uploads :
       entry[n] = FileOf(u) /\ Len(data[u]) = want[u] /\ want[u] \in 1 .. MaxFrags

\* What was made stays.
Made == \A t \in Threads : reply[t] = 1 => pc[t] = "idle" /\ entry[name[t]] = Dir

StoreInvariant == Numbered /\ OneName /\ Holds /\ Filled /\ Made /\ MkdirOnce

\* A get of what was saved has that file open and is told its size.
Reads(t) == pc[t] \in {"stat", "read", "astray"} /\ name[t] \in had[t] =>
  /\ name[t] \in saved /\ fd[t] = entry[name[t]]
  /\ pc[t] # "stat" => pc[t] = "read" /\ size[t] = Frags(fd[t]) /\ pos[t] <= size[t]

\* What ls has not sent yet of the things it may count on is still to come.
Lists(t) == pc[t] = "ls" => \A n \in had[t] :
  n \in Settled /\ (n \in left[t] \/ <<n, entry[n].kind>> \in listed[t])

Sights == \A t \in Threads : Reads(t) /\ Lists(t)
=============================================================================
