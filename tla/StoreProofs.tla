---------------------------- MODULE StoreProofs ----------------------------
(* Theorems about Store. *)
EXTENDS Store, TLAPS

\* What the three kinds of entry in the directory are.
LEMMA EntryKinds ==
  /\ Free.kind = "free" /\ Dir.kind = "dir" /\ Free # Dir
  /\ \A u : FileOf(u).kind = "file" /\ FileOf(u).of = u /\ FileOf(u) # Free /\ FileOf(u) # Dir
  /\ \A u, v : FileOf(u) = FileOf(v) => u = v
  BY DEF Free, Dir, FileOf

LEMMA NamesTyped == Typed \subseteq Names
  BY StoreAssumption DEF Typed, Names

LEMMA BeginType ==
  ASSUME TypeOK, NEW t \in Threads, NEW n \in Names, NEW a \in {-1, 0}, Begin(t, n, a)
  PROVE  /\ cmds' \in 0 .. MaxOps /\ own' \in [Threads -> 0 .. MaxOps]
         /\ name' \in [Threads -> Names] /\ reply' \in [Threads -> {-1, 0, 1}]
         /\ cmds + 1 \in Uploads
  BY StoreAssumption DEF TypeOK, Begin, Uploads

LEMMA ReturnType ==
  ASSUME TypeOK, NEW t \in Threads, Return(t)
  PROVE  /\ pc' \in [Threads -> {"idle", "create", "write", "remove", "stat", "read", "astray",
                                 "mkdir", "ls"}]
         /\ fd' \in [Threads -> Entries] /\ size' \in [Threads -> Nat] /\ pos' \in [Threads -> Nat]
         /\ left' \in [Threads -> SUBSET Names] /\ kind' \in [Threads -> Kinds]
         /\ listed' \in [Threads -> SUBSET (Names \X Kinds)] /\ had' \in [Threads -> SUBSET Names]
  BY DEF TypeOK, Return, Goto, Entries, Kinds

LEMMA Owner ==
  ASSUME TypeOK, Numbered, NEW t \in Threads, pc[t] # "idle"
  PROVE  own[t] \in Uploads /\ own[t] <= cmds /\ name[t] \in Names
  BY StoreAssumption DEF TypeOK, Numbered, Uploads

LEMMA TypeStep ==
  ASSUME TypeOK, Numbered, Holds, [StoreNext]_vars
  PROVE  TypeOK'
  <1> USE StoreAssumption DEF TypeOK
  <1>o. \A t \in Threads : pc[t] # "idle" => own[t] \in Uploads
    BY DEF Numbered, Uploads
  <1>1. ASSUME NEW t \in Threads, NEW n \in Typed, NEW w \in 1 .. MaxFrags, Put(t, n, w)
        PROVE  TypeOK'
    <2>1. /\ cmds' \in 0 .. MaxOps /\ own' \in [Threads -> 0 .. MaxOps]
          /\ name' \in [Threads -> Names] /\ reply' \in [Threads -> {-1, 0, 1}]
          /\ cmds + 1 \in Uploads
      BY <1>1, BeginType, NamesTyped DEF Put
    <2>2. want' \in [Uploads -> Nat]
      BY <1>1, <2>1 DEF Put
    <2>3. pc' = [pc EXCEPT ![t] = "create"]
      BY <1>1 DEF Put, Goto
    <2> QED
      BY <1>1, <2>1, <2>2, <2>3 DEF Put, locals, getVars, lsVars
  <1>2. ASSUME NEW t \in Threads, NEW n \in Typed, Get(t, n) PROVE TypeOK'
    <2>1. /\ cmds' \in 0 .. MaxOps /\ own' \in [Threads -> 0 .. MaxOps]
          /\ name' \in [Threads -> Names] /\ reply' \in [Threads -> {-1, 0, 1}]
      BY <1>2, BeginType, NamesTyped DEF Get
    <2>2. n \in Names
      BY NamesTyped
    <2> QED
      BY <1>2, <2>1, <2>2 DEF Get, Goto, diskVars, getVars, lsVars
  <1>3. ASSUME NEW t \in Threads, NEW n \in Typed, Mkdir(t, n) PROVE TypeOK'
    <2>1. /\ cmds' \in 0 .. MaxOps /\ own' \in [Threads -> 0 .. MaxOps]
          /\ name' \in [Threads -> Names] /\ reply' \in [Threads -> {-1, 0, 1}]
      BY <1>3, BeginType, NamesTyped DEF Mkdir
    <2> QED
      BY <1>3, <2>1 DEF Mkdir, Goto, diskVars, locals, getVars, lsVars
  <1>4. ASSUME NEW t \in Threads, Ls(t) PROVE TypeOK'
    <2>1. /\ cmds' \in 0 .. MaxOps /\ own' \in [Threads -> 0 .. MaxOps]
          /\ name' \in [Threads -> Names] /\ reply' \in [Threads -> {-1, 0, 1}]
      BY <1>4, BeginType DEF Ls
    <2>2. Settled \subseteq Names
      BY DEF Settled
    <2>3. left' \in [Threads -> SUBSET Names] /\ listed' \in [Threads -> SUBSET (Names \X Kinds)]
      BY <1>4 DEF Ls
    <2>4. kind' \in [Threads -> Kinds] /\ had' \in [Threads -> SUBSET Names]
      BY <1>4, <2>2 DEF Ls
    <2>5. pc' = [pc EXCEPT ![t] = "ls"]
      BY <1>4 DEF Ls, Goto
    <2> QED
      BY <1>4, <2>1, <2>3, <2>4, <2>5 DEF Ls, diskVars, getVars
  <1>5. ASSUME NEW t \in Threads, Create(t) PROVE TypeOK'
    <2>1. FileOf(own[t]) \in Entries
      BY <1>5, <1>o DEF Create, Entries
    <2>2. entry' \in [Names -> Entries] /\ fd' \in [Threads -> Entries]
      <3>1. \/ /\ entry' = [entry EXCEPT ![name[t]] = FileOf(own[t])]
               /\ fd' = [fd EXCEPT ![t] = FileOf(own[t])]
            \/ UNCHANGED <<entry, fd>>
        BY <1>5 DEF Create
      <3>2. entry' = entry \/ entry' = [entry EXCEPT ![name[t]] = FileOf(own[t])]
        BY <3>1
      <3>3. fd' = fd \/ fd' = [fd EXCEPT ![t] = FileOf(own[t])]
        BY <3>1
      <3>4. entry' \in [Names -> Entries]
        BY <2>1, <3>2
      <3>5. fd' \in [Threads -> Entries]
        BY <2>1, <3>3
      <3> QED
        BY <3>4, <3>5
    <2>3. name' \in [Threads -> Names]
      BY <1>5 DEF Create
    <2>4. pc' = pc \/ pc' = [pc EXCEPT ![t] = "write"]
      BY <1>5 DEF Create, Goto
    <2> QED
      BY <1>5, <2>2, <2>3, <2>4 DEF Create, getVars, lsVars
  <1>6. ASSUME NEW t \in Threads, Write(t) PROVE TypeOK'
    <2>1. fd[t].of = own[t] /\ own[t] \in Uploads
      BY <1>6, <1>o, EntryKinds DEF Write, Holds
    <2>2. Frag(own[t], Len(data[own[t]]) + 1) \in [of : Uploads, nth : Nat]
      BY <2>1 DEF Frag
    <2>3. data' = [data EXCEPT ![own[t]] = Append(@, Frag(own[t], Len(@) + 1))]
      BY <1>6, <2>1 DEF Write
    <2>4. data' \in [Uploads -> Seq([of : Uploads, nth : Nat])]
      BY <2>1, <2>2, <2>3
    <2> QED
      BY <1>6, <2>4 DEF Write, locals, getVars, lsVars
  <1>7. ASSUME NEW t \in Threads, PutDone(t) PROVE TypeOK'
    BY <1>7, ReturnType DEF PutDone
  <1>8. ASSUME NEW t \in Threads, PutFails(t) PROVE TypeOK'
    BY <1>8 DEF PutFails, Goto, diskVars, locals, getVars, lsVars
  <1>9. ASSUME NEW t \in Threads, Remove(t) PROVE TypeOK'
    <2>1. entry' \in [Names -> Entries]
      BY <1>9 DEF Remove, Entries
    <2> QED
      BY <1>9, <2>1, ReturnType DEF Remove
  <1>10. ASSUME NEW t \in Threads, Stat(t) PROVE TypeOK'
    <2>1. size' \in [Threads -> Nat] /\ pos' \in [Threads -> Nat]
      BY <1>10 DEF Stat
    <2> QED
      BY <1>10, <2>1 DEF Stat, Goto, diskVars, lsVars
  <1>11. ASSUME NEW t \in Threads, Read(t) PROVE TypeOK'
    <2>1. pos' \in [Threads -> Nat]
      BY <1>11 DEF Read
    <2> QED
      BY <1>11, <2>1 DEF Read, diskVars, lsVars
  <1>12. ASSUME NEW t \in Threads, GetEnd(t) PROVE TypeOK'
    <2>1. CASE Return(t)
      BY <1>12, <2>1, ReturnType DEF GetEnd, diskVars
    <2>2. CASE Goto(t, "astray") /\ UNCHANGED locals
      BY <1>12, <2>2 DEF GetEnd, Goto, diskVars, locals, getVars, lsVars
    <2> QED
      BY <1>12, <2>1, <2>2 DEF GetEnd
  <1>13. ASSUME NEW t \in Threads, MakeDir(t) PROVE TypeOK'
    <2>1. entry' \in [Names -> Entries]
      BY <1>13 DEF MakeDir, Entries
    <2>2. reply' \in [Threads -> {-1, 0, 1}]
      BY <1>13 DEF MakeDir
    <2> QED
      BY <1>13, <2>1, <2>2 DEF MakeDir, Goto, locals, getVars, lsVars
  <1>14. ASSUME NEW t \in Threads, LsEntry(t) PROVE TypeOK'
    <2>1. PICK n \in left[t] :
            /\ left' = [left EXCEPT ![t] = @ \ {n}]
            /\ kind' = [kind EXCEPT ![t] = IF entry[n] = Free THEN @ ELSE entry[n].kind]
            /\ listed' = [listed EXCEPT ![t] =
                            IF kind'[t] = "other" THEN @ ELSE @ \cup {<<n, kind'[t]>>}]
      BY <1>14 DEF LsEntry
    <2>2. n \in Names /\ left' \in [Threads -> SUBSET Names]
      BY <2>1
    <2>3. entry[n] # Free => entry[n].kind \in Kinds
      <3>1. entry[n] \in Entries
        BY <2>2
      <3> QED
        BY <3>1, EntryKinds DEF Entries, Kinds
    <2>4. kind' \in [Threads -> Kinds]
      BY <2>1, <2>3
    <2>5. listed' \in [Threads -> SUBSET (Names \X Kinds)]
      BY <2>1, <2>2, <2>4
    <2> QED
      BY <1>14, <2>2, <2>4, <2>5 DEF LsEntry, diskVars, getVars
  <1>15. ASSUME NEW t \in Threads, LsEnd(t) PROVE TypeOK'
    BY <1>15, ReturnType DEF LsEnd, diskVars
  <1>16. CASE Crash
    BY <1>16 DEF Crash, diskVars, Entries, Kinds
  <1>17. CASE UNCHANGED vars
    BY <1>17 DEF vars, diskVars, locals, getVars, lsVars
  <1> QED
    BY <1>1, <1>2, <1>3, <1>4, <1>5, <1>6, <1>7, <1>8, <1>9, <1>10, <1>11, <1>12, <1>13,
       <1>14, <1>15, <1>16, <1>17
    DEF StoreNext, Client, Thread

----------------------------------------------------------------------------

LEMMA InitInvariant == StoreInit => TypeOK /\ StoreInvariant
  <1> SUFFICES ASSUME StoreInit PROVE TypeOK /\ StoreInvariant
    OBVIOUS
  <1> USE StoreAssumption, EntryKinds DEF StoreInit
  <1>1. TypeOK
    BY NamesTyped DEF TypeOK, Entries, Kinds, Uploads
  <1>2. Numbered
    BY DEF Numbered
  <1>3. OneName
    BY DEF OneName
  <1>4. Holds /\ Made /\ MkdirOnce
    BY DEF Holds, Made, MkdirOnce, Puts
  <1>5. Filled
    BY DEF Filled, OwnFrags, Uploads
  <1> QED
    BY <1>1, <1>2, <1>3, <1>4, <1>5 DEF StoreInvariant

\* Steps that leave the disk, the numbers and the answers alone, and by which no thread
\* comes to write or to remove.
LEMMA QuietStep ==
  ASSUME TypeOK, StoreInvariant, UNCHANGED <<diskVars, cmds, own, name, reply>>,
         \A t \in Threads : \/ pc'[t] = pc[t] /\ fd'[t] = fd[t]
                            \/ pc'[t] \notin Puts /\ (pc'[t] # "idle" => pc[t] # "idle")
                            \/ pc'[t] = "remove" /\ pc[t] = "write"
  PROVE  StoreInvariant'
  <1> USE DEF StoreInvariant, diskVars, Puts
  <1>1. Numbered'
    BY DEF Numbered
  <1>2. OneName'
    BY DEF OneName
  <1>3. Holds'
    BY DEF Holds
  <1>4. Filled'
    BY DEF Filled, OwnFrags
  <1>5. Made' /\ MkdirOnce'
    BY DEF Made, MkdirOnce
  <1> QED
    BY <1>1, <1>2, <1>3, <1>4, <1>5

\* Steps that begin a command: a new number, the disk as it is.
LEMMA BeginStep ==
  ASSUME TypeOK, StoreInvariant, NEW t \in Threads, NEW n \in Names, NEW a \in {-1, 0},
         Begin(t, n, a), UNCHANGED <<entry, data, saved>>,
         \A s \in Threads \ {t} : pc'[s] = pc[s] /\ fd'[s] = fd[s],
         \A u \in Uploads : u <= cmds => want'[u] = want[u],
         pc'[t] \notin {"write", "remove"},
         pc'[t] = "create" => want'[cmds + 1] \in 1 .. MaxFrags
  PROVE  StoreInvariant'
  <1> USE DEF StoreInvariant, Begin, TypeOK
  <1>1. cmds' = cmds + 1 /\ own'[t] = cmds + 1 /\ \A s \in Threads \ {t} : own'[s] = own[s] /\ own[s] <= cmds
    BY DEF Numbered
  <1>2. Numbered'
    BY <1>1 DEF Numbered
  <1>3. OneName'
    BY DEF OneName, Uploads
  <1>4. Holds'
    <2>1. ASSUME NEW s \in Threads, s # t, pc[s] # "idle" PROVE want'[own[s]] = want[own[s]]
      BY <2>1, <1>1 DEF Numbered, Uploads
    <2>2. \A m \in Names : entry[m] # FileOf(cmds + 1)
      BY StoreAssumption DEF OneName, Uploads
    <2>3. ASSUME NEW s \in Threads, s # t
          PROVE  UNCHANGED <<pc[s], fd[s], own[s], name[s]>>
      BY <2>3, <1>1
    <2>4. ASSUME NEW s \in Threads
          PROVE  /\ pc'[s] = "create" => \A m \in Names : entry'[m] # FileOf(own'[s])
                 /\ pc'[s] \in {"write", "remove"} =>
                      entry'[name'[s]] = FileOf(own'[s]) /\ name'[s] \notin saved'
                 /\ pc'[s] = "write" => fd'[s] = FileOf(own'[s])
                 /\ pc'[s] \in Puts => want'[own'[s]] \in 1 .. MaxFrags
      <3>1. CASE s = t
        BY <3>1, <1>1, <2>2 DEF Puts
      <3>2. CASE s # t
        BY <3>2, <2>1, <2>3 DEF Holds, Puts
      <3> QED
        BY <3>1, <3>2
    <2> QED
      BY <2>4 DEF Holds
  <1>5. Filled'
    <2>1. \A u \in Uploads : OwnFrags(data'[u], u)
      BY DEF Filled
    <2>2. ASSUME NEW m \in saved
          PROVE  \E u \in Uploads :
                   entry[m] = FileOf(u) /\ Len(data[u]) = want'[u] /\ want'[u] \in 1 .. MaxFrags
      <3>1. PICK u \in Uploads :
              entry[m] = FileOf(u) /\ Len(data[u]) = want[u] /\ want[u] \in 1 .. MaxFrags
        BY DEF Filled
      <3>2. u <= cmds
        BY <3>1 DEF OneName
      <3> QED
        BY <3>1, <3>2
    <2> QED
      BY <2>1, <2>2 DEF Filled, OwnFrags
  <1>6. Made' /\ MkdirOnce'
    <2>1. reply'[t] # 1 /\ \A s \in Threads \ {t} : UNCHANGED <<pc[s], name[s], reply[s]>>
      OBVIOUS
    <2> QED
      BY <2>1 DEF Made, MkdirOnce
  <1> QED
    BY <1>2, <1>3, <1>4, <1>5, <1>6

LEMMA StoreStep ==
  ASSUME TypeOK, StoreInvariant, [StoreNext]_vars
  PROVE  StoreInvariant'
  <1> USE DEF StoreInvariant
  <1>1. ASSUME NEW t \in Threads, NEW n \in Typed, NEW w \in 1 .. MaxFrags, Put(t, n, w)
        PROVE  StoreInvariant'
    <2>1. /\ Begin(t, n, 0) /\ n \in Names /\ UNCHANGED <<entry, data, saved, fd>>
          /\ want' = [want EXCEPT ![cmds + 1] = w] /\ pc' = [pc EXCEPT ![t] = "create"]
      BY <1>1, NamesTyped DEF Put, Goto, locals
    <2>2. cmds + 1 \in Uploads
      BY <2>1, BeginType
    <2>3. \A u \in Uploads : u <= cmds => want'[u] = want[u]
      BY <2>1 DEF TypeOK, Uploads
    <2> QED
      BY <2>1, <2>2, <2>3, BeginStep DEF TypeOK
  <1>2. ASSUME NEW t \in Threads, NEW n \in Typed, Get(t, n) PROVE StoreInvariant'
    <2>1. /\ Begin(t, n, 0) /\ n \in Names /\ UNCHANGED diskVars /\ pc[t] = "idle"
          /\ pc' \in {pc, [pc EXCEPT ![t] = "stat"]}
          /\ \A s \in Threads \ {t} : fd'[s] = fd[s]
      BY <1>2, NamesTyped DEF Get, Goto, Begin, TypeOK
    <2> QED
      BY <2>1, BeginStep DEF TypeOK, diskVars
  <1>3. ASSUME NEW t \in Threads, NEW n \in Typed, Mkdir(t, n) PROVE StoreInvariant'
    <2>1. PICK a \in {-1, 0} : Begin(t, n, a)
      BY <1>3 DEF Mkdir
    <2>2. /\ n \in Names /\ UNCHANGED diskVars /\ pc[t] = "idle" /\ UNCHANGED fd
          /\ pc' \in {pc, [pc EXCEPT ![t] = "mkdir"]}
      BY <1>3, NamesTyped DEF Mkdir, Goto, Begin, locals
    <2>3. pc'[t] \in {"idle", "mkdir"} /\ \A s \in Threads \ {t} : pc'[s] = pc[s]
      BY <2>2 DEF TypeOK
    <2> QED
      BY <2>1, <2>2, <2>3, BeginStep DEF diskVars
  <1>4. ASSUME NEW t \in Threads, Ls(t) PROVE StoreInvariant'
    <2>1. /\ Begin(t, name[t], 0) /\ name[t] \in Names /\ UNCHANGED diskVars /\ UNCHANGED fd
          /\ pc' = [pc EXCEPT ![t] = "ls"]
      BY <1>4 DEF Ls, Goto, TypeOK
    <2> QED
      BY <2>1, BeginStep DEF TypeOK, diskVars
  <1>5. ASSUME NEW t \in Threads, Create(t) PROVE StoreInvariant'
    <2> DEFINE Taken == /\ entry[name[t]] = Free
                        /\ fd' = [fd EXCEPT ![t] = FileOf(own[t])]
                        /\ entry' = [entry EXCEPT ![name[t]] = FileOf(own[t])]
                        /\ pc' = [pc EXCEPT ![t] = "write"]
                        /\ UNCHANGED name
               Next == name' = [name EXCEPT ![t] = Longer(@)] /\ UNCHANGED <<entry, fd, pc>>
    <2>0. pc[t] = "create" /\ UNCHANGED <<data, want, saved, cmds, own, reply>> /\ (Taken \/ Next)
      BY <1>5 DEF Create, Goto
    <2>1. CASE Taken
      <3>1. own[t] \in Uploads /\ own[t] <= cmds /\ name[t] \in Names
        BY <2>0, Owner
      <3>2. name[t] \notin saved
        BY <2>1, EntryKinds DEF Filled
      <3>3. Numbered'
        BY <2>0, <2>1 DEF Numbered, TypeOK
      <3>4. OneName'
        BY <2>0, <2>1, <3>1, EntryKinds DEF OneName, Holds, TypeOK
      <3>5. Holds'
        <4>1. ASSUME NEW s \in Threads, s # t, pc[s] \in Puts PROVE FileOf(own[s]) # FileOf(own[t])
          BY <4>1, <3>1, EntryKinds DEF Numbered, Puts
        <4>2. ASSUME NEW s \in Threads, s # t, pc[s] \in {"write", "remove"} PROVE name[s] # name[t]
          BY <4>2, <2>1, EntryKinds DEF Holds
        <4> QED
          BY <2>0, <2>1, <3>1, <3>2, <4>1, <4>2 DEF Holds, Puts, TypeOK
      <3>6. Filled'
        BY <2>0, <2>1, <3>2 DEF Filled, OwnFrags, TypeOK
      <3>7. Made' /\ MkdirOnce'
        BY <2>0, <2>1, EntryKinds DEF Made, MkdirOnce, TypeOK
      <3> QED
        BY <3>3, <3>4, <3>5, <3>6, <3>7
    <2>2. CASE Next
      <3>1. Numbered' /\ OneName' /\ Filled'
        BY <2>0, <2>2 DEF Numbered, OneName, Filled, OwnFrags
      <3>2. Holds'
        BY <2>0, <2>2 DEF Holds, TypeOK, Puts
      <3>3. reply[t] # 1
        BY <2>0 DEF Made
      <3>4. Made' /\ MkdirOnce'
        BY <2>0, <2>2, <3>3 DEF Made, MkdirOnce, TypeOK
      <3> QED
        BY <3>1, <3>2, <3>4
    <2> QED
      BY <2>0, <2>1, <2>2
  <1>6. ASSUME NEW t \in Threads, Write(t) PROVE StoreInvariant'
    <2>1. /\ pc[t] = "write" /\ own[t] \in Uploads /\ fd[t].of = own[t]
          /\ name[t] \in Names /\ entry[name[t]] = FileOf(own[t]) /\ name[t] \notin saved
      BY <1>6, Owner, EntryKinds DEF Write, Holds
    <2>2. data' = [data EXCEPT ![own[t]] = Append(@, Frag(own[t], Len(@) + 1))]
      BY <1>6, <2>1 DEF Write
    <2>3. UNCHANGED <<entry, want, saved, pc, cmds, own, name, fd, reply>>
      BY <1>6 DEF Write, locals
    <2>4. Numbered' /\ OneName' /\ Holds' /\ Made' /\ MkdirOnce'
      BY <2>3 DEF Numbered, OneName, Holds, Made, MkdirOnce
    <2>5. Filled'
      <3>1. data[own[t]] \in Seq([of : Uploads, nth : Nat])
        BY <2>1 DEF TypeOK
      <3>2. OwnFrags(data[own[t]], own[t])
        BY <2>1 DEF Filled
      <3>3. OwnFrags(Append(data[own[t]], Frag(own[t], Len(data[own[t]]) + 1)), own[t])
        BY <3>1, <3>2 DEF OwnFrags
      <3>4. \A u \in Uploads : OwnFrags(data'[u], u)
        BY <2>1, <2>2, <3>3 DEF Filled, TypeOK
      <3>5. ASSUME NEW n \in saved
            PROVE  \E u \in Uploads : entry[n] = FileOf(u) /\ Len(data'[u]) = want[u]
                                      /\ want[u] \in 1 .. MaxFrags
        BY <2>1, <2>2 DEF Filled, OneName, TypeOK
      <3> QED
        BY <2>3, <3>4, <3>5 DEF Filled, OwnFrags
    <2> QED
      BY <2>4, <2>5
  <1>7. ASSUME NEW t \in Threads, PutDone(t) PROVE StoreInvariant'
    <2>1. /\ pc[t] = "write" /\ own[t] \in Uploads /\ fd[t].of = own[t]
          /\ name[t] \in Names /\ entry[name[t]] = FileOf(own[t]) /\ want[own[t]] \in 1 .. MaxFrags
      BY <1>7, Owner, EntryKinds DEF PutDone, Holds, Puts
    <2>2. /\ saved' = saved \cup {name[t]} /\ Len(data[own[t]]) = want[own[t]]
          /\ pc' = [pc EXCEPT ![t] = "idle"] /\ UNCHANGED <<entry, data, want, cmds, own, name, reply>>
          /\ fd' = [fd EXCEPT ![t] = Free]
      BY <1>7, <2>1 DEF PutDone, Return, Goto
    <2>3. Numbered' /\ OneName'
      BY <2>1, <2>2 DEF Numbered, OneName, TypeOK
    <2>4. Holds'
      <3>1. ASSUME NEW s \in Threads, s # t, pc[s] \in {"write", "remove"} PROVE name[s] # name[t]
        BY <3>1, <2>1, EntryKinds DEF Holds, Numbered
      <3> QED
        BY <2>2, <3>1 DEF Holds, Puts, TypeOK
    <2>5. Filled'
      BY <2>1, <2>2 DEF Filled, OwnFrags
    <2>6. Made' /\ MkdirOnce'
      BY <2>1, <2>2 DEF Made, MkdirOnce, TypeOK
    <2> QED
      BY <2>3, <2>4, <2>5, <2>6
  <1>8. ASSUME NEW t \in Threads, PutFails(t) PROVE StoreInvariant'
    BY <1>8, QuietStep DEF PutFails, Goto, TypeOK, locals
  <1>9. ASSUME NEW t \in Threads, Remove(t) PROVE StoreInvariant'
    <2>1. /\ pc[t] = "remove" /\ name[t] \in Names /\ entry[name[t]] = FileOf(own[t])
          /\ name[t] \notin saved /\ own[t] \in Uploads
      BY <1>9, Owner DEF Remove, Holds
    <2>2. /\ entry' = [entry EXCEPT ![name[t]] = Free]
          /\ pc' = [pc EXCEPT ![t] = "idle"] /\ UNCHANGED <<data, want, saved, cmds, own, name, reply>>
          /\ fd' = [fd EXCEPT ![t] = Free]
      BY <1>9 DEF Remove, Return, Goto
    <2>3. Numbered'
      BY <2>1, <2>2 DEF Numbered, TypeOK
    <2>4. OneName'
      BY <2>1, <2>2, EntryKinds DEF OneName, TypeOK
    <2>5. Holds'
      <3>1. ASSUME NEW s \in Threads, s # t, pc[s] \in {"write", "remove"} PROVE name[s] # name[t]
        BY <3>1, <2>1, EntryKinds DEF Holds, Numbered
      <3> QED
        BY <2>2, <3>1, EntryKinds DEF Holds, Puts, TypeOK
    <2>6. Filled'
      BY <2>1, <2>2 DEF Filled, OwnFrags, TypeOK
    <2>7. Made' /\ MkdirOnce'
      BY <2>1, <2>2, EntryKinds DEF Made, MkdirOnce, TypeOK
    <2> QED
      BY <2>3, <2>4, <2>5, <2>6, <2>7
  <1>10. ASSUME NEW t \in Threads, Stat(t) PROVE StoreInvariant'
    BY <1>10, QuietStep DEF Stat, Goto, TypeOK, Puts
  <1>11. ASSUME NEW t \in Threads, Read(t) PROVE StoreInvariant'
    BY <1>11, QuietStep DEF Read
  <1>12. ASSUME NEW t \in Threads, GetEnd(t) PROVE StoreInvariant'
    <2>1. pc[t] = "read" /\ UNCHANGED <<diskVars, cmds, own, name, reply>>
      BY <1>12 DEF GetEnd
    <2>2. CASE Return(t)
      BY <2>1, <2>2, QuietStep DEF Return, Goto, TypeOK, Puts
    <2>3. CASE Goto(t, "astray") /\ UNCHANGED locals
      BY <2>1, <2>3, QuietStep DEF Goto, TypeOK, Puts, locals
    <2> QED
      BY <1>12, <2>2, <2>3 DEF GetEnd
  <1>13. ASSUME NEW t \in Threads, MakeDir(t) PROVE StoreInvariant'
    <2>1. /\ pc[t] = "mkdir" /\ name[t] \in Names /\ pc' = [pc EXCEPT ![t] = "idle"]
          /\ UNCHANGED <<data, want, saved, cmds, own, name, fd>>
      BY <1>13 DEF MakeDir, Goto, TypeOK, locals
    <2>2. CASE /\ entry[name[t]] = Free
               /\ entry' = [entry EXCEPT ![name[t]] = Dir]
               /\ reply' = [reply EXCEPT ![t] = 1]
      <3>1. Numbered'
        BY <2>1, <2>2 DEF Numbered, TypeOK
      <3>2. OneName'
        BY <2>1, <2>2, EntryKinds DEF OneName, TypeOK
      <3>3. Holds'
        <4>1. ASSUME NEW s \in Threads, pc[s] \in {"write", "remove"} PROVE s # t /\ name[s] # name[t]
          BY <4>1, <2>1, <2>2, EntryKinds DEF Holds
        <4> QED
          BY <2>1, <2>2, <4>1, EntryKinds DEF Holds, Puts, TypeOK
      <3>4. Filled'
        BY <2>1, <2>2, EntryKinds DEF Filled, OwnFrags, TypeOK
      <3>5. Made' /\ MkdirOnce'
        BY <2>1, <2>2, EntryKinds DEF Made, MkdirOnce, TypeOK
      <3> QED
        BY <3>1, <3>2, <3>3, <3>4, <3>5
    <2>3. CASE reply' = [reply EXCEPT ![t] = -1] /\ UNCHANGED entry
      <3>1. Numbered' /\ OneName' /\ Filled'
        BY <2>1, <2>3 DEF Numbered, OneName, Filled, OwnFrags, TypeOK
      <3>2. Holds'
        BY <2>1, <2>3 DEF Holds, Puts, TypeOK
      <3>3. Made' /\ MkdirOnce'
        BY <2>1, <2>3 DEF Made, MkdirOnce, TypeOK
      <3> QED
        BY <3>1, <3>2, <3>3
    <2> QED
      BY <1>13, <2>2, <2>3 DEF MakeDir
  <1>14. ASSUME NEW t \in Threads, LsEntry(t) PROVE StoreInvariant'
    BY <1>14, QuietStep DEF LsEntry
  <1>15. ASSUME NEW t \in Threads, LsEnd(t) PROVE StoreInvariant'
    BY <1>15, QuietStep DEF LsEnd, Return, Goto, TypeOK, Puts
  <1>16. CASE Crash
    BY <1>16, QuietStep DEF Crash, Puts
  <1>17. CASE UNCHANGED vars
    BY <1>17, QuietStep DEF vars, locals
  <1> QED
    BY <1>1, <1>2, <1>3, <1>4, <1>5, <1>6, <1>7, <1>8, <1>9, <1>10, <1>11, <1>12, <1>13,
       <1>14, <1>15, <1>16, <1>17
    DEF StoreNext, Client, Thread

----------------------------------------------------------------------------

LEMMA StoreCorrect == StoreSpec => [](TypeOK /\ StoreInvariant)
<1>1. TypeOK /\ StoreInvariant /\ [StoreNext]_vars => (TypeOK /\ StoreInvariant)'
  BY TypeStep, StoreStep DEF StoreInvariant
<1> QED
  BY <1>1, InitInvariant, PTL DEF StoreSpec

\* The directory and the locals of the threads keep their types, for any number of
\* threads, names and commands.
THEOREM TypeCorrect == StoreSpec => []TypeOK
  BY StoreCorrect, PTL

\* Uploads of one name at the same time never write into one another's file, and what
\* is reported saved is all there (the O_EXCL loop and the loop after it in clnt_put).
THEOREM UploadsStayApart == StoreSpec => []UploadsApart
<1>1. TypeOK /\ StoreInvariant => UploadsApart
  BY EntryKinds DEF StoreInvariant, Filled, UploadsApart
<1> QED
  BY <1>1, StoreCorrect, PTL

\* Two clients that ask for one directory are never both told that they made it, though
\* make_dir looks for the name before it creates it.
THEOREM OneMaker == StoreSpec => []MkdirOnce
  BY StoreCorrect, PTL DEF StoreInvariant

----------------------------------------------------------------------------

\* What a step does to what has been reported: nothing, or one name more.
Unseen == saved' = saved /\ \A n \in Names : entry'[n] = Dir <=> entry[n] = Dir

NewFile(n, u) ==
  /\ n \in Names /\ u \in Uploads /\ n \notin saved /\ entry[n] = FileOf(u)
  /\ Len(data[u]) = want[u] /\ want[u] \in 1 .. MaxFrags
  /\ saved' = saved \cup {n} /\ UNCHANGED <<entry, data, want>>

NewDir(n) ==
  /\ n \in Names /\ n \notin saved /\ entry[n] = Free
  /\ entry' = [entry EXCEPT ![n] = Dir] /\ UNCHANGED <<saved, data, want>>

\* What was saved stays as it is.
SavedKept ==
  /\ saved \subseteq saved'
  /\ \A n \in saved : /\ entry'[n] = entry[n]
                      /\ data'[entry[n].of] = data[entry[n].of]
                      /\ want'[entry[n].of] = want[entry[n].of]

LEMMA DiskStep ==
  ASSUME TypeOK, StoreInvariant, [StoreNext]_vars
  PROVE  /\ SavedKept
         /\ \/ Unseen
            \/ \E n \in Names, u \in Uploads : NewFile(n, u)
            \/ \E n \in Names : NewDir(n)
  <1> DEFINE Seen == SavedKept /\ (\/ Unseen
                                   \/ \E n \in Names, u \in Uploads : NewFile(n, u)
                                   \/ \E n \in Names : NewDir(n))
  <1> USE DEF StoreInvariant
  <1>a. ASSUME UNCHANGED diskVars PROVE Seen
    BY <1>a DEF diskVars, SavedKept, Unseen
  <1>b. ASSUME NEW n \in saved
        PROVE  \E u \in Uploads : entry[n] = FileOf(u) /\ entry[n].of = u /\ u <= cmds
    <2>1. PICK u \in Uploads : entry[n] = FileOf(u)
      BY DEF Filled
    <2> QED
      BY <2>1, EntryKinds DEF OneName, TypeOK
  <1>1. ASSUME NEW t \in Threads, NEW n \in Typed, NEW w \in 1 .. MaxFrags, Put(t, n, w)
        PROVE  Seen
    <2>1. /\ UNCHANGED <<entry, data, saved>> /\ want' = [want EXCEPT ![cmds + 1] = w]
      BY <1>1 DEF Put
    <2>2. ASSUME NEW m \in saved PROVE want'[entry[m].of] = want[entry[m].of]
      BY <1>b, <2>1 DEF TypeOK
    <2> QED
      BY <2>1, <2>2 DEF SavedKept, Unseen
  <1>2. ASSUME NEW t \in Threads, Create(t) PROVE Seen
    <2>1. UNCHANGED <<data, want, saved>>
      BY <1>2 DEF Create
    <2>2. CASE UNCHANGED entry
      BY <1>a, <2>1, <2>2 DEF diskVars
    <2>3. CASE entry[name[t]] = Free /\ entry' = [entry EXCEPT ![name[t]] = FileOf(own[t])]
      <3>1. name[t] \notin saved
        BY <1>b, <2>3, EntryKinds
      <3> QED
        BY <2>1, <2>3, <3>1, EntryKinds DEF SavedKept, Unseen, TypeOK
    <2> QED
      BY <1>2, <2>2, <2>3 DEF Create
  <1>3. ASSUME NEW t \in Threads, Write(t) PROVE Seen
    <2>1. /\ fd[t].of = own[t] /\ name[t] \notin saved /\ entry[name[t]] = FileOf(own[t])
          /\ name[t] \in Names /\ own[t] \in Uploads /\ UNCHANGED <<entry, want, saved>>
      BY <1>3, Owner, EntryKinds DEF Write, Holds
    <2>2. \A u \in Uploads : u # own[t] => data'[u] = data[u]
      BY <1>3, <2>1 DEF Write, TypeOK
    <2>3. ASSUME NEW n \in saved PROVE data'[entry[n].of] = data[entry[n].of]
      <3>1. PICK u \in Uploads : entry[n] = FileOf(u) /\ entry[n].of = u
        BY <1>b
      <3>2. u # own[t]
        BY <2>1, <3>1 DEF OneName, TypeOK
      <3> QED
        BY <2>2, <3>1, <3>2
    <2> QED
      BY <2>1, <2>3 DEF SavedKept, Unseen
  <1>4. ASSUME NEW t \in Threads, PutDone(t) PROVE Seen
    <2>1. /\ fd[t].of = own[t] /\ entry[name[t]] = FileOf(own[t]) /\ name[t] \notin saved
          /\ name[t] \in Names /\ own[t] \in Uploads /\ want[own[t]] \in 1 .. MaxFrags
      BY <1>4, Owner, EntryKinds DEF PutDone, Holds, Puts
    <2>2. NewFile(name[t], own[t])
      BY <1>4, <2>1 DEF PutDone, NewFile
    <2> QED
      BY <2>1, <2>2 DEF NewFile, SavedKept
  <1>5. ASSUME NEW t \in Threads, Remove(t) PROVE Seen
    <2>1. /\ name[t] \notin saved /\ entry[name[t]] = FileOf(own[t]) /\ name[t] \in Names
          /\ entry' = [entry EXCEPT ![name[t]] = Free] /\ UNCHANGED <<data, want, saved>>
      BY <1>5, Owner DEF Remove, Holds
    <2> QED
      BY <2>1, EntryKinds DEF SavedKept, Unseen, TypeOK
  <1>6. ASSUME NEW t \in Threads, MakeDir(t) PROVE Seen
    <2>1. name[t] \in Names /\ UNCHANGED <<data, want, saved>>
      BY <1>6 DEF MakeDir, TypeOK
    <2>2. CASE UNCHANGED entry
      BY <1>a, <2>1, <2>2 DEF diskVars
    <2>3. CASE entry[name[t]] = Free /\ entry' = [entry EXCEPT ![name[t]] = Dir]
      <3>1. name[t] \notin saved
        BY <1>b, <2>3, EntryKinds
      <3>2. NewDir(name[t])
        BY <2>1, <2>3, <3>1 DEF NewDir
      <3> QED
        BY <2>1, <2>3, <3>1, <3>2 DEF SavedKept, TypeOK
    <2> QED
      BY <1>6, <2>2, <2>3 DEF MakeDir
  <1>7. ASSUME NEW t \in Threads, NEW n \in Typed, Get(t, n) \/ Mkdir(t, n) PROVE Seen
    BY <1>7, <1>a DEF Get, Mkdir
  <1>8. ASSUME NEW t \in Threads,
               \/ Ls(t) \/ PutFails(t) \/ Stat(t) \/ Read(t) \/ GetEnd(t) \/ LsEntry(t) \/ LsEnd(t)
        PROVE  Seen
    BY <1>8, <1>a DEF Ls, PutFails, Stat, Read, GetEnd, LsEntry, LsEnd
  <1>9. CASE Crash \/ UNCHANGED vars
    BY <1>9, <1>a DEF Crash, vars
  <1> QED
    BY <1>1, <1>2, <1>3, <1>4, <1>5, <1>6, <1>7, <1>8, <1>9 DEF StoreNext, Client, Thread

\* The contents of a file that is all there are what the abstract directory calls whole.
LEMMA WholeData ==
  ASSUME TypeOK, Filled, NEW u \in Uploads, Len(data[u]) = want[u], want[u] \in 1 .. MaxFrags
  PROVE  Whole(data[u]) \in Wholes
  <1>1. data[u] \in Seq([of : Uploads, nth : Nat]) /\ OwnFrags(data[u], u)
    BY DEF TypeOK, Filled
  <1>2. data[u] = [k \in 1 .. want[u] |-> Frag(u, k)]
    BY <1>1 DEF OwnFrags
  <1>3. Whole(data[u]) = AllOf(u, want[u])
    BY <1>2 DEF AllOf
  <1> QED
    BY <1>3 DEF Wholes

LEMMA ShelfStep ==
  ASSUME TypeOK, StoreInvariant, [StoreNext]_vars
  PROVE  [Directory!ShelfNext]_Reported
  <1> USE DEF StoreInvariant
  <1>1. SavedKept /\ TypeOK'
    BY DiskStep, TypeStep
  <1>2. CASE Unseen
    <2>1. \A n \in Names : Reported'[n] = Reported[n]
      BY <1>1, <1>2 DEF Unseen, SavedKept, Reported
    <2>2. Reported' = Reported
      BY <2>1 DEF Reported
    <2> QED
      BY <2>2
  <1>3. ASSUME NEW n \in Names, NEW u \in Uploads, NewFile(n, u)
        PROVE  Directory!ShelfNext
    <2>1. Reported[n] = Free
      BY <1>3, EntryKinds DEF NewFile, Reported
    <2>2. Reported'[n] = Whole(data[u])
      BY <1>3, EntryKinds DEF NewFile, Reported
    <2>3. \A m \in Names \ {n} : Reported'[m] = Reported[m]
      BY <1>3 DEF NewFile, Reported
    <2>4. Whole(data[u]) \in Wholes
      BY <1>3, WholeData DEF NewFile
    <2> QED
      BY <2>1, <2>2, <2>3, <2>4 DEF Directory!ShelfNext, Directory!Appears
  <1>4. ASSUME NEW n \in Names, NewDir(n)
        PROVE  Directory!ShelfNext
    <2>1. Reported[n] = Free
      BY <1>4, EntryKinds DEF NewDir, Reported
    <2>2. Reported'[n] = Dir
      BY <1>4 DEF NewDir, Reported, TypeOK
    <2>3. \A m \in Names \ {n} : entry'[m] = entry[m]
      BY <1>4 DEF NewDir, TypeOK
    <2>4. \A m \in Names \ {n} : Reported'[m] = Reported[m]
      BY <1>4, <2>3 DEF NewDir, Reported
    <2> QED
      BY <2>1, <2>2, <2>4 DEF Directory!ShelfNext, Directory!Appears
  <1> QED
    BY <1>2, <1>3, <1>4, DiskStep

\* The directory as clients are told of it implements Shelf: whatever is reported saved
\* or made was free before, appears whole, and is neither changed nor removed later, by
\* a failed upload, another thread or a crash.
THEOREM Implements == StoreSpec => ImplementsShelf
<1>1. StoreInit => Directory!ShelfInit
  BY EntryKinds DEF StoreInit, Directory!ShelfInit, Reported
<1>2. TypeOK /\ StoreInvariant /\ [StoreNext]_vars => [Directory!ShelfNext]_Reported
  BY ShelfStep
<1> QED
  BY <1>1, <1>2, StoreCorrect, PTL DEF StoreSpec, ImplementsShelf, Directory!ShelfSpec

----------------------------------------------------------------------------

LEMMA SettledKept ==
  ASSUME TypeOK, StoreInvariant, [StoreNext]_vars, NEW n \in Settled
  PROVE  n \in Settled' /\ entry'[n] = entry[n] /\ n \in Names
  <1>1. SavedKept
    BY DiskStep
  <1>2. CASE n \in saved
    BY <1>1, <1>2 DEF SavedKept, Settled, TypeOK
  <1>3. CASE n \in Names /\ entry[n] = Dir
    <2>1. entry'[n] = Dir
      BY <1>3, DiskStep DEF Unseen, NewFile, NewDir, TypeOK
    <2> QED
      BY <1>3, <2>1 DEF Settled
  <1> QED
    BY <1>2, <1>3 DEF Settled

\* What the steps of other threads leave of a thread's sight of the directory.
LEMMA OthersSight ==
  ASSUME TypeOK, StoreInvariant, [StoreNext]_vars, NEW t \in Threads, Reads(t), Lists(t),
         UNCHANGED <<pc[t], name[t], fd[t], size[t], pos[t], left[t], listed[t], had[t]>>
  PROVE  Reads(t)' /\ Lists(t)'
  <1>1. SavedKept
    BY DiskStep
  <1>2. Reads(t)'
    BY <1>1 DEF Reads, SavedKept, Frags
  <1>3. Lists(t)'
    BY SettledKept DEF Lists
  <1> QED
    BY <1>2, <1>3

LEMMA SightsStep ==
  ASSUME TypeOK, StoreInvariant, Sights, [StoreNext]_vars
  PROVE  Sights'
  <1> DEFINE Same(t) == UNCHANGED <<pc[t], name[t], fd[t], size[t], pos[t], left[t], listed[t], had[t]>>
             Busy(t) == pc'[t] \in {"idle", "create", "write", "remove", "mkdir"}
             Clear(t) == Reads(t)' /\ Lists(t)'
  <1>a. ASSUME NEW t \in Threads, Same(t) PROVE Clear(t)
    BY <1>a, OthersSight DEF Sights
  <1>b. ASSUME NEW t \in Threads, Busy(t) PROVE Clear(t)
    BY <1>b DEF Reads, Lists
  <1>c. ASSUME NEW t \in Threads, Clear(t), \A s \in Threads \ {t} : Same(s) PROVE Sights'
    BY <1>a, <1>c DEF Sights
  <1>k. SavedKept /\ saved \subseteq Names
    BY DiskStep DEF TypeOK
  <1> HIDE DEF Same, Busy, Clear
  <1> USE DEF TypeOK
  <1>1. ASSUME NEW t \in Threads, NEW n \in Typed, NEW w \in 1 .. MaxFrags, Put(t, n, w)
        PROVE  Sights'
    <2>1. Busy(t) /\ \A s \in Threads \ {t} : Same(s)
      BY <1>1 DEF Put, Begin, Goto, locals, getVars, lsVars, Busy, Same
    <2> QED
      BY <2>1, <1>b, <1>c
  <1>2. ASSUME NEW t \in Threads, NEW n \in Typed, Get(t, n) PROVE Sights'
    <2>1. \A s \in Threads \ {t} : Same(s)
      BY <1>2 DEF Get, Begin, Goto, getVars, lsVars, Same
    <2>2. CASE UNCHANGED pc
      BY <1>2, <2>1, <2>2, <1>b, <1>c DEF Get, Begin, Busy
    <2>3. CASE /\ fd' = [fd EXCEPT ![t] = entry[n]] /\ had' = [had EXCEPT ![t] = saved]
               /\ pc' = [pc EXCEPT ![t] = "stat"]
      <3>1. pc'[t] = "stat" /\ name'[t] = n /\ fd'[t] = entry[n] /\ had'[t] = saved /\ UNCHANGED diskVars
        BY <1>2, <2>3 DEF Get, Begin
      <3>2. Reads(t)' /\ Lists(t)'
        BY <3>1 DEF Reads, Lists, diskVars
      <3> QED
        BY <2>1, <3>2, <1>c DEF Clear
    <2> QED
      BY <1>2, <2>2, <2>3 DEF Get, Goto
  <1>3. ASSUME NEW t \in Threads, NEW n \in Typed, Mkdir(t, n) PROVE Sights'
    <2>1. Busy(t) /\ \A s \in Threads \ {t} : Same(s)
      BY <1>3 DEF Mkdir, Begin, Goto, locals, getVars, lsVars, Busy, Same
    <2> QED
      BY <2>1, <1>b, <1>c
  <1>4. ASSUME NEW t \in Threads, Ls(t) PROVE Sights'
    <2>1. \A s \in Threads \ {t} : Same(s)
      BY <1>4 DEF Ls, Begin, Goto, diskVars, getVars, Same
    <2>2. /\ pc'[t] = "ls" /\ left'[t] = {n \in Names : entry[n] # Free} /\ had'[t] = Settled
          /\ UNCHANGED diskVars
      BY <1>4 DEF Ls, Goto
    <2>3. ASSUME NEW n \in Settled PROVE n \in Names /\ entry[n] # Free
      BY <2>3, EntryKinds DEF Settled, StoreInvariant, Filled
    <2>4. Settled' = Settled
      BY <2>2 DEF Settled, diskVars
    <2>5. Reads(t)' /\ Lists(t)'
      BY <2>2, <2>3, <2>4 DEF Reads, Lists
    <2> QED
      BY <2>1, <2>5, <1>c DEF Clear
  <1>5. ASSUME NEW t \in Threads, Create(t) PROVE Sights'
    <2>1. Busy(t) /\ \A s \in Threads \ {t} : Same(s)
      BY <1>5 DEF Create, Goto, getVars, lsVars, Busy, Same
    <2> QED
      BY <2>1, <1>b, <1>c
  <1>6. ASSUME NEW t \in Threads, Write(t) PROVE Sights'
    BY <1>6, <1>a, <1>c DEF Write, locals, getVars, lsVars, Same, Sights, Clear
  <1>7. ASSUME NEW t \in Threads, Return(t), UNCHANGED name PROVE Sights'
    <2>1. Busy(t) /\ \A s \in Threads \ {t} : Same(s)
      BY <1>7 DEF Return, Goto, Busy, Same
    <2> QED
      BY <2>1, <1>b, <1>c
  <1>8. ASSUME NEW t \in Threads, PutFails(t) PROVE Sights'
    <2>1. Busy(t) /\ \A s \in Threads \ {t} : Same(s)
      BY <1>8 DEF PutFails, Goto, locals, getVars, lsVars, Busy, Same
    <2> QED
      BY <2>1, <1>b, <1>c
  <1>9. ASSUME NEW t \in Threads, Stat(t) PROVE Sights'
    <2>1. \A s \in Threads \ {t} : Same(s)
      BY <1>9 DEF Stat, Goto, diskVars, lsVars, Same
    <2>2. PICK m \in 0 .. MaxFrags :
            /\ entry[name[t]].kind = "file" => m = Frags(entry[name[t]])
            /\ size' = [size EXCEPT ![t] = m]
      BY <1>9 DEF Stat
    <2>3. /\ pc[t] = "stat" /\ pc'[t] = "read" /\ size'[t] = m /\ pos'[t] = 0
          /\ UNCHANGED <<diskVars, name, fd, had>>
      BY <1>9, <2>2 DEF Stat, Goto
    <2>4. Reads(t)'
      <3> SUFFICES ASSUME name[t] \in had[t]
                   PROVE  /\ name[t] \in saved /\ fd[t] = entry[name[t]]
                          /\ size'[t] = Frags(fd[t]) /\ pos'[t] <= size'[t]
        BY <2>3 DEF Reads, Frags, diskVars
      <3>1. name[t] \in saved /\ fd[t] = entry[name[t]]
        BY <2>3 DEF Sights, Reads
      <3>2. entry[name[t]].kind = "file"
        BY <3>1, EntryKinds DEF StoreInvariant, Filled
      <3> QED
        BY <2>2, <2>3, <3>1, <3>2
    <2>5. Lists(t)'
      BY <2>3 DEF Lists
    <2> QED
      BY <2>1, <2>4, <2>5, <1>c DEF Clear
  <1>10. ASSUME NEW t \in Threads, Read(t) PROVE Sights'
    <2>1. \A s \in Threads \ {t} : Same(s)
      BY <1>10 DEF Read, diskVars, lsVars, Same
    <2>2. /\ pc[t] = "read" /\ pos[t] < Frags(fd[t]) /\ pos'[t] = pos[t] + 1
          /\ UNCHANGED <<diskVars, pc, name, fd, size, had>>
      BY <1>10 DEF Read
    <2>3. Reads(t)'
      <3> SUFFICES ASSUME name[t] \in had[t]
                   PROVE  /\ name[t] \in saved /\ fd[t] = entry[name[t]]
                          /\ size[t] = Frags(fd[t]) /\ pos'[t] <= size[t]
        BY <2>2 DEF Reads, Frags, diskVars
      <3> QED
        BY <2>2 DEF Sights, Reads
    <2>4. Lists(t)'
      BY <2>2 DEF Lists
    <2> QED
      BY <2>1, <2>3, <2>4, <1>c DEF Clear
  <1>11. ASSUME NEW t \in Threads, GetEnd(t) PROVE Sights'
    <2>1. CASE Return(t)
      BY <1>11, <1>7, <2>1 DEF GetEnd
    <2>2. CASE pos[t] # size[t] /\ Goto(t, "astray") /\ UNCHANGED locals
      <3>1. \A s \in Threads \ {t} : Same(s)
        BY <1>11, <2>2 DEF GetEnd, Goto, locals, getVars, lsVars, Same
      <3>2. pc[t] = "read" /\ pc'[t] = "astray" /\ UNCHANGED <<name, had>>
            /\ (pos[t] >= Frags(fd[t]) \/ pos[t] > size[t])
        BY <1>11, <2>2 DEF GetEnd, Goto, locals
      <3>3. name[t] \notin had[t]
        <4> SUFFICES ASSUME name[t] \in had[t] PROVE FALSE
          OBVIOUS
        <4>1. size[t] = Frags(fd[t]) /\ pos[t] <= size[t]
          BY <3>2 DEF Sights, Reads
        <4>2. pos[t] \in Nat /\ size[t] \in Nat /\ pos[t] # size[t]
          BY <2>2
        <4> QED
          BY <3>2, <4>1, <4>2
      <3>4. Reads(t)' /\ Lists(t)'
        BY <3>2, <3>3 DEF Reads, Lists
      <3> QED
        BY <3>1, <3>4, <1>c DEF Clear
    <2> QED
      BY <1>11, <2>1, <2>2 DEF GetEnd
  <1>12. ASSUME NEW t \in Threads, MakeDir(t) PROVE Sights'
    <2>1. Busy(t) /\ \A s \in Threads \ {t} : Same(s)
      BY <1>12 DEF MakeDir, Goto, locals, getVars, lsVars, Busy, Same
    <2> QED
      BY <2>1, <1>b, <1>c
  <1>13. ASSUME NEW t \in Threads, LsEntry(t) PROVE Sights'
    <2>1. \A s \in Threads \ {t} : Same(s)
      BY <1>13 DEF LsEntry, diskVars, getVars, Same
    <2>2. PICK n \in left[t] :
            /\ left' = [left EXCEPT ![t] = @ \ {n}]
            /\ kind' = [kind EXCEPT ![t] = IF entry[n] = Free THEN @ ELSE entry[n].kind]
            /\ listed' = [listed EXCEPT ![t] =
                            IF kind'[t] = "other" THEN @ ELSE @ \cup {<<n, kind'[t]>>}]
      BY <1>13 DEF LsEntry
    <2>3. pc[t] = "ls" /\ pc'[t] = "ls" /\ UNCHANGED <<diskVars, had>>
      BY <1>13 DEF LsEntry
    <2>4. ASSUME NEW m \in had[t]
          PROVE  m \in Settled' /\ (m \in left'[t] \/ <<m, entry'[m].kind>> \in listed'[t])
      <3>1. m \in Settled /\ (m \in left[t] \/ <<m, entry[m].kind>> \in listed[t])
        BY <2>3 DEF Sights, Lists
      <3>2. m \in Settled' /\ entry'[m] = entry[m]
        BY <2>3, <3>1 DEF Settled, diskVars
      <3>3. CASE m # n \/ m \notin left[t]
        <4>1. listed[t] \subseteq listed'[t] /\ (m \in left[t] => m \in left'[t])
          BY <2>2, <3>3
        <4> QED
          BY <3>1, <3>2, <4>1
      <3>4. CASE m = n
        <4>1. entry[n].kind \in {"file", "dir"} /\ entry[n] # Free
          BY <3>1, <3>4, EntryKinds DEF Settled, StoreInvariant, Filled
        <4>2. kind'[t] = entry[n].kind
          BY <2>2, <4>1
        <4>3. <<n, entry[n].kind>> \in listed'[t]
          BY <2>2, <4>1, <4>2
        <4> QED
          BY <3>2, <3>4, <4>3
      <3> QED
        BY <3>3, <3>4
    <2>5. Reads(t)' /\ Lists(t)'
      BY <2>3, <2>4 DEF Reads, Lists
    <2> QED
      BY <2>1, <2>5, <1>c DEF Clear
  <1>14. CASE Crash
    <2>1. \A t \in Threads : Busy(t)
      BY <1>14 DEF Crash, Busy
    <2> QED
      BY <2>1, <1>b DEF Sights, Clear
  <1>15. CASE UNCHANGED vars
    BY <1>15, <1>a DEF vars, locals, getVars, lsVars, Same, Sights, Clear
  <1> QED
    BY <1>1, <1>2, <1>3, <1>4, <1>5, <1>6, <1>7, <1>8, <1>9, <1>10, <1>11, <1>12, <1>13,
       <1>14, <1>15
    DEF StoreNext, Client, Thread, PutDone, Remove, LsEnd

LEMMA SightsCorrect == StoreSpec => []Sights
<1>1. StoreInit => Sights
  BY DEF StoreInit, Sights, Reads, Lists
<1>2. TypeOK /\ StoreInvariant /\ Sights /\ [StoreNext]_vars => Sights'
  BY SightsStep
<1> QED
  BY <1>1, <1>2, StoreCorrect, PTL DEF StoreSpec

\* A get of a file saved before it began sends all of it, in step with its client, though
\* it opens the file by name and asks for its size by name later (clnt_get).
THEOREM GetsWhole == StoreSpec => []GetWhole
<1>1. ASSUME TypeOK, StoreInvariant, Sights, NEW t \in Threads,
             pc[t] \in {"read", "astray"}, name[t] \in had[t]
      PROVE  /\ pc[t] = "read" /\ fd[t] = entry[name[t]]
             /\ size[t] = want[fd[t].of] /\ Frags(fd[t]) = size[t]
  <2>1. /\ pc[t] = "read" /\ name[t] \in saved /\ fd[t] = entry[name[t]]
        /\ size[t] = Frags(fd[t])
    BY <1>1 DEF Sights, Reads
  <2>2. PICK u \in Uploads : fd[t] = FileOf(u) /\ Len(data[u]) = want[u]
    BY <1>1, <2>1 DEF StoreInvariant, Filled
  <2> QED
    BY <2>1, <2>2, EntryKinds DEF Frags
<1>2. TypeOK /\ StoreInvariant /\ Sights => GetWhole
  BY <1>1 DEF GetWhole
<1> QED
  BY <1>2, StoreCorrect, SightsCorrect, PTL

\* What was saved or made before an ls began is in what it sends, as what it is, though
\* entries come and go between readdir and lstat (ls).
THEOREM ListsComplete == StoreSpec => []ListsSettled
<1>1. Sights => ListsSettled
  BY DEF Sights, Lists, ListsSettled
<1> QED
  BY <1>1, SightsCorrect, PTL
=============================================================================
