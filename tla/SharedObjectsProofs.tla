------------------------- MODULE SharedObjectsProofs -------------------------
(***************************************************************************)
(* The properties of the icon cache and of the key pair for any number of  *)
(* threads, icons and keys, and that the cache implements WriteOnce.       *)
(*                                                                         *)
(* What a thread may rely on depends on where it is, and on who else may   *)
(* be there (JobSound): in the cache it owns the mutex; constructing, it   *)
(* is the builder; past getInstance, there is an object, and nobody builds.*)
(* No thread may rely on the key it saw, which a reset takes away at any   *)
(* moment.  What remains is the order of the generations (KeysSound): a    *)
(* key that was given up never comes back, so the key of a block that was  *)
(* not held when a call began is none that the call can see, and if it is  *)
(* held in the end, then it is the one the call saw all the time.          *)
(***************************************************************************)
EXTENDS SharedObjects, TLAPS

KeyJobSound(j) ==
    /\ j.pc \notin {"get", "construct"} => built
    /\ j.block # 0 => given[j.block] # "never"
    /\ j.block # 0 /\ ~ j.valid => given[j.block] = "before"
    /\ j.pc \in {"seal", "open", "write"} => j.key # None /\ j.key <= made
    /\ j.pc = "open" =>
          /\ j.block = j.key => j.valid
          /\ j.block = pair => j.key = pair

JobSound(t, j) ==
    j # None =>
        /\ j.pc \in {"search", "load", "insert"} => cacheLock = t
        /\ j.pc = "construct" => builder = t
        /\ j.op \in KeyOps => KeyJobSound(j)

KeysSound ==
    /\ built => builder = None
    /\ pair # None => built /\ given[pair] # "before" /\ pair <= made
    /\ \A k \in Generations :
          /\ given[k] # "never" => k <= made
          /\ given[k] = "now" => pair = k

Inv ==
    /\ TypeOK
    /\ \A t \in Threads : JobSound(t, job[t])
    /\ KeysSound

LEMMA NoneDiffers ==
    /\ None \notin Generations
    /\ None \notin {0} \cup Generations
    /\ None \notin Icons
    /\ 0 \notin Generations
    /\ Generations \subseteq Nat
    /\ \A t \in Threads : t # None
  BY MaxKeyAssumption, SentinelsAssumption DEF Generations, Icons

LEMMA JobTypes ==
    ASSUME Inv, NEW t \in Threads, job[t] # None
    PROVE  /\ job[t] \in Jobs
           /\ \A pc \in {"search", "load", "insert"} :
                 job[t].op = "icon" => [job[t] EXCEPT !.pc = pc] \in IconJobs
           /\ job[t].pc \in {"search", "load", "insert"} => job[t] \in IconJobs
           /\ job[t].pc \in {"get", "construct", "test", "seal", "size", "open",
                             "pem", "write", "free", "generate"} =>
                 job[t] \in KeyJobs /\ job[t].op \in KeyOps
           /\ job[t].op \in KeyOps => job[t] \in KeyJobs
           /\ job[t] \in KeyJobs =>
                 /\ job[t].block \in {0} \cup Generations
                 /\ job[t].key \in Generations \cup {None}
                 /\ job[t].valid \in BOOLEAN
  <1>1. job[t] \in Jobs
    BY DEF Inv, TypeOK
  <1> QED
    BY <1>1 DEF Jobs, IconJobs, KeyJobs, KeyOps

-----------------------------------------------------------------------------
(* What the invariant gives for the properties *)

LEMMA InvBuilt == Inv => BuiltBeforeUse
  BY DEF Inv, JobSound, KeyJobSound, KeysSound, BuiltBeforeUse

LEMMA InvOne == Inv => OneInCache
  BY DEF Inv, JobSound, OneInCache

-----------------------------------------------------------------------------
(* Steps of one thread *)

LEMMA InitInv == Init => Inv
  <1> SUFFICES ASSUME Init PROVE Inv
    OBVIOUS
  <1>1. TypeOK
    <2>1. made \in 0..MaxKey
      BY MaxKeyAssumption DEF Init
    <2>2. {cacheLock, builder, pairLock} \subseteq Threads \cup {None}
      BY DEF Init
    <2> QED
      BY <2>1, <2>2 DEF Init, TypeOK
  <1>2. KeysSound /\ \A t \in Threads : JobSound(t, job[t])
    BY DEF Init, KeysSound, JobSound
  <1> QED
    BY <1>1, <1>2 DEF Inv

(* Shared state may change under another thread, as long as the thread keeps
   what it relies on: a key that was given up stays so, and the next one is
   new. *)
Keeps(t) ==
    /\ \A u \in Threads \ {t} :
          /\ cacheLock = u => cacheLock' = u
          /\ builder = u => builder' = u
    /\ built => built'
    /\ made' \in Nat /\ made <= made'
    /\ pair' \in {pair, None} \/ (pair' = made' /\ made' = made + 1)
    /\ \A k \in Generations :
          /\ given[k] # "never" => given'[k] # "never"
          /\ given[k] = "before" => given'[k] = "before"

LEMMA StepInv ==
    ASSUME Inv, NEW t \in Threads, Keeps(t), TypeOK', KeysSound',
           \A u \in Threads \ {t} : job'[u] = job[u],
           JobSound(t, job[t])'
    PROVE  Inv'
  <1> SUFFICES ASSUME NEW u \in Threads \ {t}
               PROVE  JobSound(u, job[u])'
    BY DEF Inv
  <1>1. job'[u] = job[u] /\ JobSound(u, job[u])
    BY DEF Inv
  <1>2. ASSUME job[u] # None, job[u].op \in KeyOps
        PROVE  KeyJobSound(job[u])'
    <2> DEFINE j == job[u]
    <2>1. KeyJobSound(j)
      BY <1>1, <1>2 DEF JobSound
    <2>2. /\ j.block \in {0} \cup Generations /\ j.key \in Generations \cup {None}
      BY <1>2, JobTypes
    <2>3. made \in Nat /\ \A k \in Generations : given[k] # "never" => k <= made
      BY MaxKeyAssumption DEF Inv, TypeOK, KeysSound
    <2> HIDE DEF j
    <2>4. j.pc \in {"seal", "open", "write"} => j.key # None /\ j.key <= made'
      <3> SUFFICES ASSUME j.pc \in {"seal", "open", "write"}
                   PROVE  j.key # None /\ j.key <= made'
        OBVIOUS
      <3>1. j.key # None /\ j.key <= made
        BY <2>1 DEF KeyJobSound
      <3>2. j.key \in Nat
        BY <2>2, <3>1, NoneDiffers
      <3>3. made' \in Nat /\ made <= made'
        BY DEF Keeps
      <3> QED
        BY <2>3, <3>1, <3>2, <3>3
    <2>5. j.pc = "open" /\ j.block = pair' => j.key = pair'
      <3> SUFFICES ASSUME j.pc = "open", j.block = pair' PROVE j.key = pair'
        OBVIOUS
      <3>1. pair' # None
        BY <2>2, NoneDiffers
      <3>2. CASE pair' = pair
        BY <2>1, <3>2 DEF KeyJobSound
      <3>3. CASE pair' = made + 1
        <4>1. j.block = made + 1 /\ j.block \in Generations /\ j.block <= made
          BY <2>1, <2>2, <2>3, <3>3 DEF KeyJobSound
        <4> QED
          BY <2>3, <4>1
      <3> QED
        BY <3>1, <3>2, <3>3 DEF Keeps
    <2>6. /\ j.block # 0 => given'[j.block] # "never"
          /\ j.block # 0 /\ ~ j.valid => given'[j.block] = "before"
          /\ j.pc \notin {"get", "construct"} => built'
          /\ j.pc = "open" /\ j.block = j.key => j.valid
      BY <2>1, <2>2 DEF KeyJobSound, Keeps
    <2>7. j' = j
      BY <1>1 DEF j
    <2> QED
      BY <2>4, <2>5, <2>6, <2>7 DEF KeyJobSound, j
  <1> QED
    BY <1>1, <1>2 DEF JobSound, Keeps

(* Only the job, and perhaps a lock of nobody else's, changes. *)
LEMMA CalmStep ==
    ASSUME Inv, NEW t \in Threads, UNCHANGED <<built, pair, made, given>>,
           \A u \in Threads \ {t} :
              /\ cacheLock = u => cacheLock' = u
              /\ builder = u => builder' = u,
           built => builder' = None
    PROVE  Keeps(t) /\ KeysSound'
  <1>1. made \in Nat
    BY MaxKeyAssumption DEF Inv, TypeOK
  <1> QED
    BY <1>1 DEF Inv, KeysSound, Keeps

LEMMA EndSound ==
    ASSUME Inv, NEW t \in Threads, Finish(t)
    PROVE  /\ job' \in [Threads -> Jobs \cup {None}]
           /\ \A u \in Threads \ {t} : job'[u] = job[u]
           /\ JobSound(t, job[t])'
  BY DEF Finish, JobSound, Inv, TypeOK

LEMMA AskIconInv ==
    ASSUME Inv, NEW t \in Threads, NEW n \in Names, AskIcon(t, n)
    PROVE  Inv'
  <1> DEFINE j == [op |-> "icon", pc |-> "lock", name |-> n, icon |-> Empty]
  <1>1. j \in Jobs /\ j.pc = "lock" /\ j.op = "icon"
    BY DEF Jobs, IconJobs, Icons
  <1>2. job' = [job EXCEPT ![t] = j] /\ verdict' = [verdict EXCEPT ![t] = None]
    BY DEF AskIcon, Clear
  <1> HIDE DEF j
  <1>3. TypeOK'
    BY <1>1, <1>2 DEF AskIcon, objects, locks, keys, Inv, TypeOK
  <1>4. KeysSound' /\ Keeps(t)
    BY CalmStep DEF AskIcon, objects, locks, keys, Inv, KeysSound
  <1>5. job'[t] = j
    BY <1>2 DEF Inv, TypeOK
  <1>6. JobSound(t, job[t])'
    BY <1>1, <1>5 DEF JobSound, KeyOps
  <1> QED
    BY <1>2, <1>3, <1>4, <1>6, StepInv DEF Inv, TypeOK

LEMMA LockCacheInv ==
    ASSUME Inv, NEW t \in Threads, LockCache(t)
    PROVE  Inv'
  <1> DEFINE j == [job[t] EXCEPT !.pc = "search"]
  <1>1. j \in Jobs /\ j.pc = "search" /\ j.op = "icon"
    BY JobTypes DEF LockCache, At, Jobs, IconJobs
  <1>2. job' = [job EXCEPT ![t] = j] /\ verdict' = verdict
    BY DEF LockCache, Goto
  <1> HIDE DEF j
  <1>3. TypeOK'
    BY <1>1, <1>2 DEF LockCache, objects, keys, Inv, TypeOK
  <1>4. KeysSound' /\ Keeps(t)
    BY CalmStep, NoneDiffers DEF LockCache, objects, keys, Inv, KeysSound
  <1>5. job'[t] = j /\ cacheLock' = t
    BY <1>2 DEF Inv, TypeOK, LockCache
  <1>6. JobSound(t, job[t])'
    BY <1>1, <1>5 DEF JobSound, KeyOps
  <1> QED
    BY <1>2, <1>3, <1>4, <1>6, StepInv DEF Inv, TypeOK

LEMMA SearchCacheInv ==
    ASSUME Inv, NEW t \in Threads, SearchCache(t)
    PROVE  Inv'
  <1> DEFINE j == IF cache[job[t].name] # None THEN None ELSE [job[t] EXCEPT !.pc = "load"]
  <1>1. /\ j \in Jobs \cup {None}
        /\ j # None => j.pc = "load" /\ j.op = "icon" /\ cacheLock' = t
    BY JobTypes DEF SearchCache, At, Jobs, IconJobs, Inv, JobSound
  <1>2. job' = [job EXCEPT ![t] = j] /\ verdict' = verdict
    BY DEF SearchCache, Goto, Give, Finish
  <1> HIDE DEF j
  <1>3. cacheLock' \in {cacheLock, None} /\ cacheLock = t
    BY DEF SearchCache, At, Inv, JobSound
  <1>4. TypeOK'
    BY <1>1, <1>2, <1>3 DEF SearchCache, objects, keys, Inv, TypeOK
  <1>5. KeysSound' /\ Keeps(t)
    BY <1>3, CalmStep, NoneDiffers DEF SearchCache, objects, keys, Inv, KeysSound
  <1>6. job'[t] = j
    BY <1>2 DEF Inv, TypeOK
  <1>7. JobSound(t, job[t])'
    BY <1>1, <1>6 DEF JobSound, KeyOps
  <1> QED
    BY <1>2, <1>4, <1>5, <1>7, StepInv DEF Inv, TypeOK

LEMMA LoadIconInv ==
    ASSUME Inv, NEW t \in Threads, LoadIcon(t)
    PROVE  Inv'
  <1>1. job[t] \in IconJobs /\ cacheLock = t
    BY JobTypes DEF LoadIcon, At, Inv, JobSound
  <1>2. PICK j \in Jobs \cup {None} :
           /\ job' = [job EXCEPT ![t] = j]
           /\ j # None => j.pc = "insert" /\ j.op = "icon" /\ cacheLock' = t
    <2>1. CASE Finish(t)
      BY <2>1 DEF Finish
    <2>2. CASE /\ job' = [job EXCEPT ![t].pc = "insert", ![t].icon = theme[job[t].name]]
               /\ UNCHANGED cacheLock
      <3> DEFINE j == [job[t] EXCEPT !.pc = "insert", !.icon = theme[job[t].name]]
      <3>1. theme[job[t].name] \in Icons
        BY <1>1 DEF Inv, TypeOK, IconJobs
      <3>2. j \in Jobs /\ j.pc = "insert" /\ j.op = "icon"
        BY <1>1, <3>1 DEF Jobs, IconJobs
      <3>3. job' = [job EXCEPT ![t] = j]
        BY <2>2 DEF Inv, TypeOK
      <3> QED
        BY <1>1, <2>2, <3>2, <3>3
    <2> QED
      BY <2>1, <2>2 DEF LoadIcon
  <1>3. verdict' = verdict /\ cacheLock' \in {cacheLock, None}
    BY DEF LoadIcon
  <1>4. TypeOK'
    BY <1>2, <1>3 DEF LoadIcon, objects, keys, Inv, TypeOK
  <1>5. KeysSound' /\ Keeps(t)
    BY <1>1, <1>3, CalmStep, NoneDiffers DEF LoadIcon, objects, keys, Inv, KeysSound
  <1>6. job'[t] = j
    BY <1>2 DEF Inv, TypeOK
  <1>7. JobSound(t, job[t])'
    BY <1>2, <1>6 DEF JobSound, KeyOps
  <1> QED
    BY <1>2, <1>4, <1>5, <1>7, StepInv DEF Inv, TypeOK

LEMMA InsertIconInv ==
    ASSUME Inv, NEW t \in Threads, InsertIcon(t)
    PROVE  Inv'
  <1>1. job[t] \in IconJobs /\ cacheLock = t
    BY JobTypes DEF InsertIcon, At, Inv, JobSound
  <1>2. Finish(t) /\ verdict' = verdict /\ cacheLock' = None
    BY DEF InsertIcon, Give
  <1>3. cache' \in [Names -> Icons \cup {None}]
    BY <1>1 DEF InsertIcon, Inv, TypeOK, IconJobs
  <1>4. TypeOK'
    BY <1>2, <1>3, EndSound DEF InsertIcon, keys, Inv, TypeOK
  <1>5. KeysSound' /\ Keeps(t)
    BY <1>1, <1>2, CalmStep, NoneDiffers DEF InsertIcon, keys, Inv, KeysSound
  <1> QED
    BY <1>2, <1>4, <1>5, EndSound, StepInv

LEMMA AskKeyInv ==
    ASSUME Inv, NEW t \in Threads, NEW op \in KeyOps, AskKey(t, op)
    PROVE  Inv'
  <1>1. PICK b \in {0} \cup Generations :
           /\ job' = [job EXCEPT ![t] =
                        [op |-> op, pc |-> "get", block |-> b, valid |-> Held(b), key |-> None]]
           /\ b # 0 => given[b] # "never"
    BY DEF AskKey, Presented
  <1> DEFINE j == [op |-> op, pc |-> "get", block |-> b, valid |-> Held(b), key |-> None]
  <1>2. /\ j \in Jobs /\ j.pc = "get" /\ j.block = b /\ j.valid = Held(b)
    <2>1. Held(b) \in BOOLEAN
      BY DEF Held
    <2> QED
      BY <2>1 DEF Jobs, KeyJobs
  <1>3. job' = [job EXCEPT ![t] = j] /\ verdict' = [verdict EXCEPT ![t] = None]
    BY <1>1 DEF AskKey, Clear
  <1> HIDE DEF j
  <1>4. TypeOK'
    BY <1>2, <1>3 DEF AskKey, objects, locks, keys, Inv, TypeOK
  <1>5. KeysSound' /\ Keeps(t)
    BY CalmStep DEF AskKey, objects, locks, keys, Inv, KeysSound
  <1>6. job'[t] = j /\ given' = given
    BY <1>3 DEF Inv, TypeOK, AskKey, keys
  <1>7. b # 0 => given[b] \in {"never", "before", "now"}
    BY DEF Inv, TypeOK
  <1>8. JobSound(t, job[t])'
    BY <1>1, <1>2, <1>6, <1>7 DEF JobSound, KeyJobSound, Held
  <1> QED
    BY <1>3, <1>4, <1>5, <1>8, StepInv DEF Inv, TypeOK

(* A thread that goes on with the key pair, having looked at its key or not *)
LEMMA KeyStep ==
    ASSUME Inv, NEW t \in Threads, job[t] # None, job[t] \in KeyJobs, job[t].op \in KeyOps,
           NEW pc \in {"construct", "lock", "test", "seal", "size", "open", "pem", "write",
                       "free", "generate"},
           \/ Goto(t, pc) /\ pc \notin {"seal", "open", "write"}
           \/ SeeKey(t, pc)
    PROVE  /\ job' \in [Threads -> Jobs \cup {None}]
           /\ \A u \in Threads \ {t} : job'[u] = job[u]
           /\ job'[t] \in KeyJobs /\ job'[t].pc = pc
           /\ job'[t].block = job[t].block /\ job'[t].valid = job[t].valid
           /\ pc \in {"seal", "open", "write"} => job'[t].key = pair /\ pair # None
           /\ KeyJobSound(job[t])
  <1>1. KeyJobSound(job[t])
    BY DEF Inv, JobSound
  <1>2. PICK k \in Generations \cup {None} :
           /\ job' = [job EXCEPT ![t] = [job[t] EXCEPT !.pc = pc, !.key = k]]
           /\ pc \in {"seal", "open", "write"} => k = pair /\ pair # None
    <2>1. CASE Goto(t, pc) /\ pc \notin {"seal", "open", "write"}
      <3>1. [job[t] EXCEPT !.pc = pc, !.key = job[t].key] = [job[t] EXCEPT !.pc = pc]
        BY DEF KeyJobs
      <3>2. job[t].key \in Generations \cup {None}
        BY JobTypes
      <3>3. job' = [job EXCEPT ![t] = [job[t] EXCEPT !.pc = pc]]
        BY <2>1 DEF Goto
      <3> QED
        BY <2>1, <3>1, <3>2, <3>3
    <2>2. CASE SeeKey(t, pc)
      <3>1. pair \in Generations \cup {None}
        BY DEF Inv, TypeOK
      <3>2. job' = [job EXCEPT ![t] = [job[t] EXCEPT !.pc = pc, !.key = pair]]
        BY <2>2 DEF SeeKey, Inv, TypeOK
      <3> QED
        BY <2>2, <3>1, <3>2 DEF SeeKey
    <2> QED
      BY <2>1, <2>2
  <1> DEFINE j == [job[t] EXCEPT !.pc = pc, !.key = k]
  <1>3. /\ j \in KeyJobs /\ j \in Jobs /\ j.pc = pc /\ j.key = k
        /\ j.block = job[t].block /\ j.valid = job[t].valid
    BY DEF KeyJobs, Jobs
  <1>4. job' = [job EXCEPT ![t] = j]
    BY <1>2
  <1> HIDE DEF j
  <1>5. job'[t] = j
    BY <1>4 DEF Inv, TypeOK
  <1> QED
    BY <1>1, <1>2, <1>3, <1>4, <1>5 DEF Inv, TypeOK

(* ... while nothing else changes *)
LEMMA KeyStepInv ==
    ASSUME Inv, NEW t \in Threads, job[t] # None, job[t] \in KeyJobs, job[t].op \in KeyOps,
           NEW pc \in {"construct", "lock", "test", "seal", "size", "open", "pem", "write",
                       "free", "generate"},
           \/ Goto(t, pc) /\ pc \notin {"seal", "open", "write"}
           \/ SeeKey(t, pc),
           UNCHANGED <<theme, cache, built, pair, made, given, cacheLock, verdict>>,
           pairLock' \in Threads \cup {None},
           pc # "construct" => built /\ builder' = builder,
           pc = "construct" => ~ built /\ builder = None /\ builder' = t
    PROVE  Inv'
  <1>1. /\ job' \in [Threads -> Jobs \cup {None}]
        /\ \A u \in Threads \ {t} : job'[u] = job[u]
        /\ job'[t] \in KeyJobs /\ job'[t].pc = pc
        /\ job'[t].block = job[t].block /\ job'[t].valid = job[t].valid
        /\ pc \in {"seal", "open", "write"} => job'[t].key = pair /\ pair # None
        /\ KeyJobSound(job[t])
    BY KeyStep
  <1>2. TypeOK'
    BY <1>1 DEF Inv, TypeOK
  <1>3. Keeps(t) /\ KeysSound'
    BY CalmStep, NoneDiffers DEF Inv, KeysSound
  <1>4. KeyJobSound(job[t])'
    <2>1. /\ pair # None => given[pair] # "before" /\ pair <= made
      BY DEF Inv, KeysSound
    <2>2. job[t].block = pair /\ pair # None => job[t].valid
      BY <1>1, <2>1, JobTypes, NoneDiffers DEF KeyJobSound, Inv, TypeOK
    <2> QED
      BY <1>1, <2>1, <2>2 DEF KeyJobSound
  <1>5. JobSound(t, job[t])'
    BY <1>1, <1>4 DEF JobSound
  <1> QED
    BY <1>1, <1>2, <1>3, <1>5, StepInv

LEMMA RestartInv ==
    ASSUME Inv, Restart
    PROVE  Inv'
  <1>1. /\ given' \in [Generations -> {"never", "before", "now"}]
        /\ \A k \in Generations : given'[k] # "now" /\ (given'[k] # "never" => given[k] # "never")
    BY DEF Restart, Retired, Inv, TypeOK
  <1>2. TypeOK'
    BY <1>1 DEF Restart, Inv, TypeOK
  <1>3. KeysSound'
    BY <1>1, NoneDiffers DEF Restart, Inv, KeysSound
  <1>4. ASSUME NEW t \in Threads PROVE JobSound(t, job[t])'
    BY DEF Restart, JobSound
  <1> QED
    BY <1>2, <1>3, <1>4 DEF Inv

(* A call ends that left the key pair alone. *)
LEMMA FinishInv ==
    ASSUME Inv, NEW t \in Threads, Finish(t),
           UNCHANGED <<theme, objects, cacheLock, builder, keys>>,
           pairLock' \in Threads \cup {None},
           verdict' \in [Threads -> Verdicts \cup {None}]
    PROVE  Inv'
  <1>1. TypeOK'
    BY EndSound DEF objects, keys, Inv, TypeOK
  <1>2. KeysSound' /\ Keeps(t)
    BY CalmStep DEF objects, keys, Inv, KeysSound
  <1> QED
    BY <1>1, <1>2, EndSound, StepInv

LEMMA GetInstanceInv ==
    ASSUME Inv, NEW t \in Threads, GetInstance(t)
    PROVE  Inv'
  <1>1. job[t] # None /\ job[t] \in KeyJobs /\ job[t].op \in KeyOps
    BY JobTypes DEF GetInstance, At
  <1>2. FirstStep(job[t].op) \in {"lock", "size", "pem", "free"}
    BY <1>1 DEF FirstStep, KeyOps
  <1>3. UNCHANGED <<theme, cache, built, pair, made, given, cacheLock, pairLock, verdict>>
        /\ pairLock' \in Threads \cup {None}
    BY DEF GetInstance, objects, keys, Inv, TypeOK
  <1>4. CASE built /\ Goto(t, FirstStep(job[t].op)) /\ UNCHANGED builder
    BY <1>1, <1>2, <1>3, <1>4, KeyStepInv
  <1>5. CASE ~ built /\ builder = None /\ builder' = t /\ Goto(t, "construct")
    BY <1>1, <1>3, <1>5, KeyStepInv
  <1> QED
    BY <1>4, <1>5 DEF GetInstance

(* A key is made: the one before, if any, was given up or is. *)
LEMMA NewKey ==
    ASSUME Inv, NEW t \in Threads, made < MaxKey, made' = made + 1, pair' = made + 1,
           given' = Retired, built', builder' = None, cacheLock' = cacheLock,
           \A u \in Threads \ {t} : builder # u
    PROVE  /\ made' \in 0..MaxKey /\ pair' \in Generations
           /\ given' \in [Generations -> {"never", "before", "now"}]
           /\ KeysSound' /\ Keeps(t)
  <1>1. made \in Nat /\ made' \in 0..MaxKey /\ pair' \in Generations /\ Generations \subseteq Nat
    BY MaxKeyAssumption, NoneDiffers DEF Inv, TypeOK, Generations
  <1>2. \A k \in Generations : given[k] # "never" => k <= made
    BY DEF Inv, KeysSound
  <1>3. /\ given' \in [Generations -> {"never", "before", "now"}]
        /\ \A k \in Generations :
              /\ given'[k] # "now"
              /\ given'[k] # "never" <=> given[k] # "never"
              /\ given[k] = "before" => given'[k] = "before"
    BY DEF Retired, Inv, TypeOK
  <1>4. given'[pair'] = "never"
    <2>1. ~ (pair' <= made)
      BY <1>1
    <2> QED
      BY <1>1, <1>2, <1>3, <2>1
  <1>5. KeysSound'
    <2>1. \A k \in Generations : given'[k] # "never" => k <= made'
      BY <1>1, <1>2, <1>3
    <2>2. pair' <= made'
      BY <1>1
    <2> QED
      BY <1>3, <1>4, <2>1, <2>2 DEF KeysSound
  <1>6. Keeps(t)
    BY <1>1, <1>3 DEF Keeps
  <1> QED
    BY <1>1, <1>3, <1>5, <1>6

LEMMA ConstructInv ==
    ASSUME Inv, NEW t \in Threads, Construct(t)
    PROVE  Inv'
  <1>1. job[t] # None /\ job[t] \in KeyJobs /\ job[t].op \in KeyOps
    BY JobTypes DEF Construct, At
  <1>2. builder = t /\ ~ built /\ pair = None
    <2>1. builder = t
      BY DEF Construct, At, Inv, JobSound
    <2> QED
      BY <2>1, NoneDiffers DEF Inv, KeysSound
  <1>3. /\ verdict' = verdict /\ given' = given /\ builder' = None
        /\ UNCHANGED <<theme, cache, cacheLock, pairLock>>
    BY DEF Construct
  <1>4. CASE Finish(t) /\ UNCHANGED <<made, pair, built>>
    <2>1. TypeOK'
      BY <1>3, <1>4, EndSound DEF Inv, TypeOK
    <2>2. KeysSound' /\ Keeps(t)
      BY <1>2, <1>3, <1>4, CalmStep
    <2> QED
      BY <1>4, <2>1, <2>2, EndSound, StepInv
  <1>5. CASE /\ made < MaxKey /\ made' = made + 1 /\ pair' = made + 1 /\ built' = TRUE
             /\ Goto(t, FirstStep(job[t].op))
    <2>1. given' = Retired
      <3>1. \A k \in Generations : given[k] # "now"
        BY <1>2, NoneDiffers DEF Inv, KeysSound
      <3> QED
        BY <1>3, <3>1 DEF Retired, Inv, TypeOK
    <2>2. /\ made' \in 0..MaxKey /\ pair' \in Generations
          /\ given' \in [Generations -> {"never", "before", "now"}]
          /\ KeysSound' /\ Keeps(t)
      BY <1>2, <1>3, <1>5, <2>1, NewKey
    <2>3. FirstStep(job[t].op) \in {"lock", "size", "pem", "free"}
      BY <1>1 DEF FirstStep, KeyOps
    <2>4. /\ job' \in [Threads -> Jobs \cup {None}]
          /\ \A u \in Threads \ {t} : job'[u] = job[u]
          /\ job'[t] \in KeyJobs /\ job'[t].pc = FirstStep(job[t].op)
          /\ job'[t].block = job[t].block /\ job'[t].valid = job[t].valid
          /\ KeyJobSound(job[t])
      BY <1>1, <1>5, <2>3, KeyStep
    <2>5. TypeOK'
      BY <1>3, <1>5, <2>2, <2>4 DEF Inv, TypeOK
    <2>6. JobSound(t, job[t])'
      BY <1>3, <1>5, <2>3, <2>4 DEF JobSound, KeyJobSound
    <2> QED
      BY <2>2, <2>4, <2>5, <2>6, StepInv
  <1> QED
    BY <1>4, <1>5 DEF Construct

LEMMA FreeKeyInv ==
    ASSUME Inv, NEW t \in Threads, FreeKey(t)
    PROVE  Inv'
  <1>1. job[t] # None /\ job[t] \in KeyJobs /\ job[t].op \in KeyOps /\ job[t].pc = "free"
    BY JobTypes DEF FreeKey, At
  <1>2. CASE Restart
    BY <1>2, RestartInv
  <1>3. CASE ~ Restart
    <2>1. /\ pair' = None /\ given' = Retired /\ Goto(t, "generate")
          /\ UNCHANGED <<theme, cache, built, cacheLock, builder, pairLock, made, verdict>>
      BY <1>3 DEF FreeKey, locks
    <2>2. /\ given' \in [Generations -> {"never", "before", "now"}]
          /\ \A k \in Generations :
                /\ given'[k] # "now"
                /\ given'[k] # "never" <=> given[k] # "never"
                /\ given[k] = "before" => given'[k] = "before"
      BY <2>1 DEF Retired, Inv, TypeOK
    <2>3. /\ job' \in [Threads -> Jobs \cup {None}]
          /\ \A u \in Threads \ {t} : job'[u] = job[u]
          /\ job'[t] \in KeyJobs /\ job'[t].pc = "generate"
          /\ job'[t].block = job[t].block /\ job'[t].valid = job[t].valid
          /\ KeyJobSound(job[t])
      BY <1>1, <2>1, KeyStep
    <2>4. TypeOK'
      BY <2>1, <2>2, <2>3 DEF Inv, TypeOK
    <2>5. KeysSound' /\ Keeps(t)
      <3>1. made \in Nat
        BY MaxKeyAssumption DEF Inv, TypeOK
      <3> QED
        BY <2>1, <2>2, <3>1 DEF Inv, KeysSound, Keeps
    <2>6. JobSound(t, job[t])'
      <3>1. job[t].block \in {0} \cup Generations
        BY <1>1, JobTypes
      <3> QED
        BY <1>1, <2>1, <2>2, <2>3, <3>1 DEF JobSound, KeyJobSound
    <2> QED
      BY <2>3, <2>4, <2>5, <2>6, StepInv
  <1> QED
    BY <1>2, <1>3

LEMMA GenerateKeyInv ==
    ASSUME Inv, NEW t \in Threads, GenerateKey(t)
    PROVE  Inv'
  <1>1. built /\ builder = None
    <2>1. job[t] # None /\ job[t].op \in KeyOps /\ job[t].pc = "generate"
      BY JobTypes DEF GenerateKey, At
    <2> QED
      BY <2>1 DEF Inv, JobSound, KeyJobSound, KeysSound
  <1>2. Finish(t) /\ UNCHANGED <<theme, cache, built, cacheLock, builder, pairLock, verdict>>
    BY DEF GenerateKey, locks
  <1>3. CASE UNCHANGED <<made, pair, given>>
    BY <1>2, <1>3, FinishInv DEF objects, keys, Inv, TypeOK
  <1>4. CASE made < MaxKey /\ made' = made + 1 /\ pair' = made + 1 /\ given' = Retired
    <2>1. /\ made' \in 0..MaxKey /\ pair' \in Generations
          /\ given' \in [Generations -> {"never", "before", "now"}]
          /\ KeysSound' /\ Keeps(t)
      BY <1>1, <1>2, <1>4, NewKey, NoneDiffers
    <2>2. TypeOK'
      BY <1>2, <2>1, EndSound DEF Inv, TypeOK
    <2> QED
      BY <1>2, <2>1, <2>2, EndSound, StepInv
  <1> QED
    BY <1>3, <1>4 DEF GenerateKey

LEMMA LockPairInv ==
    ASSUME Inv, NEW t \in Threads, LockPair(t)
    PROVE  Inv'
  <1>1. job[t] # None /\ job[t] \in KeyJobs /\ job[t].op \in KeyOps /\ built
    <2>1. job[t] # None /\ job[t].op = "seal" /\ job[t].pc = "lock"
      BY DEF LockPair, At
    <2>2. job[t] \in KeyJobs /\ job[t].op \in KeyOps
      BY <2>1, JobTypes DEF KeyOps
    <2> QED
      BY <2>1, <2>2 DEF Inv, JobSound, KeyJobSound
  <1> QED
    BY <1>1, KeyStepInv DEF LockPair, objects, keys

(* The tests: with a key, the call goes on; without, it ends, or the program
   does. *)
LEMMA TestInv ==
    ASSUME Inv, NEW t \in Threads, EncryptTest(t) \/ DecryptSize(t) \/ ToStringTest(t)
    PROVE  Inv'
  <1>1. /\ job[t] # None /\ job[t] \in KeyJobs /\ job[t].op \in KeyOps /\ built
    <2>1. /\ job[t] # None /\ job[t] \in KeyJobs /\ job[t].op \in KeyOps
          /\ job[t].pc \in {"test", "size", "pem"}
      BY JobTypes DEF EncryptTest, DecryptSize, ToStringTest, At
    <2> QED
      BY <2>1 DEF Inv, JobSound, KeyJobSound
  <1>2. CASE Restart
    BY <1>2, RestartInv
  <1>3. CASE ~ Restart
    <2>1. /\ UNCHANGED <<theme, objects, cacheLock, builder, keys, verdict>>
          /\ pairLock' \in Threads \cup {None}
      BY <1>3 DEF EncryptTest, DecryptSize, ToStringTest, locks, Inv, TypeOK
    <2>2. CASE Finish(t)
      BY <2>1, <2>2, FinishInv DEF Inv, TypeOK
    <2>3. ASSUME NEW pc \in {"seal", "open", "write"}, SeeKey(t, pc)
          PROVE  Inv'
      BY <1>1, <2>1, <2>3, KeyStepInv DEF objects, keys
    <2> QED
      BY <1>3, <2>2, <2>3 DEF EncryptTest, DecryptSize, ToStringTest
  <1> QED
    BY <1>2, <1>3

LEMMA EncryptInv ==
    ASSUME Inv, NEW t \in Threads, Encrypt(t)
    PROVE  Inv'
  <1>1. CASE Restart
    BY <1>1, RestartInv
  <1>2. CASE ~ Restart
    <2>1. /\ Finish(t) /\ pairLock' = None
          /\ UNCHANGED <<theme, objects, cacheLock, builder, made, verdict>>
      BY <1>2 DEF Encrypt
    <2>2. CASE UNCHANGED given
      BY <2>1, <2>2, FinishInv DEF keys, Inv, TypeOK
    <2>3. ASSUME NEW k \in KeysSeen(t),
                 given' = [given EXCEPT ![k] = IF k = pair THEN "now" ELSE "before"]
          PROVE  Inv'
      <3>1. k \in Generations /\ k <= made
        <4>1. /\ job[t] # None /\ job[t] \in KeyJobs /\ job[t].op \in KeyOps
              /\ job[t].pc = "seal"
          BY JobTypes DEF Encrypt, At
        <4>2. job[t].key \in Generations /\ job[t].key <= made
          BY <4>1, JobTypes DEF Inv, JobSound, KeyJobSound
        <4>3. pair # None => pair \in Generations /\ pair <= made
          BY DEF Inv, TypeOK, KeysSound
        <4> QED
          BY <4>2, <4>3 DEF KeysSeen
      <3>2. /\ given' \in [Generations -> {"never", "before", "now"}]
            /\ \A g \in Generations \ {k} : given'[g] = given[g]
            /\ given'[k] = IF k = pair THEN "now" ELSE "before"
        BY <2>3, <3>1 DEF Inv, TypeOK
      <3>3. TypeOK'
        BY <2>1, <3>2, EndSound DEF objects, Inv, TypeOK
      <3>4. /\ pair # None => given[pair] # "before"
            /\ UNCHANGED <<built, pair, made, cacheLock, builder>>
            /\ made \in Nat
        BY <2>1, MaxKeyAssumption DEF objects, Inv, TypeOK, KeysSound
      <3>5. KeysSound'
        <4>1. /\ built => builder = None
              /\ pair # None => built /\ pair <= made
              /\ \A g \in Generations : /\ given[g] # "never" => g <= made
                                        /\ given[g] = "now" => pair = g
          BY DEF Inv, KeysSound
        <4>2. pair # None => given'[pair] # "before"
          <5> SUFFICES ASSUME pair # None PROVE given'[pair] # "before"
            OBVIOUS
          <5>1. pair \in Generations
            BY DEF Inv, TypeOK
          <5> QED
            BY <3>2, <3>4, <5>1
        <4>3. ASSUME NEW g \in Generations
              PROVE  (given'[g] # "never" => g <= made) /\ (given'[g] = "now" => pair = g)
          BY <3>1, <3>2, <4>1
        <4> QED
          BY <3>4, <4>1, <4>2, <4>3 DEF KeysSound
      <3>6. Keeps(t)
        <4>1. ASSUME NEW g \in Generations
              PROVE  /\ given[g] # "never" => given'[g] # "never"
                     /\ given[g] = "before" => given'[g] = "before"
          <5>1. CASE g = k
            <6>1. k = pair => given[k] # "before"
              BY <3>1, <3>4, NoneDiffers
            <6> QED
              BY <3>2, <5>1, <6>1
          <5> QED
            BY <3>2, <5>1
        <4> QED
          BY <3>4, <4>1 DEF Keeps
      <3> QED
        BY <2>1, <3>3, <3>5, <3>6, EndSound, StepInv
    <2> QED
      BY <1>2, <2>2, <2>3 DEF Encrypt
  <1> QED
    BY <1>1, <1>2

(* What Decrypt says of its block, when it comes to that *)
Said(t, good) ==
    /\ good \in BOOLEAN
    /\ good => \E k \in KeysSeen(t) : job[t].block = k
    /\ ~ good => Raced(t) \/ job[t].block # pair
    /\ verdict' = [verdict EXCEPT ![t] = [block |-> job[t].block, good |-> good]]

LEMMA DecryptSays ==
    ASSUME Inv, NEW t \in Threads, Decrypt(t), ~ Restart
    PROVE  /\ \E good \in BOOLEAN : Said(t, good)
           /\ Finish(t)
           /\ UNCHANGED <<theme, objects, locks, keys, told>>
           /\ job[t] # None /\ job[t] \in KeyJobs /\ job[t].op \in KeyOps
           /\ job[t].pc = "open" /\ KeyJobSound(job[t])
  <1>1. /\ job[t] # None /\ job[t] \in KeyJobs /\ job[t].op \in KeyOps /\ job[t].pc = "open"
    BY JobTypes DEF Decrypt, At
  <1>2. KeyJobSound(job[t])
    BY <1>1 DEF Inv, JobSound
  <1>3. PICK good \in {job[t].block = k : k \in KeysSeen(t)}
                      \cup (IF Raced(t) THEN {FALSE} ELSE {}) :
           verdict' = [verdict EXCEPT ![t] = [block |-> job[t].block, good |-> good]]
    BY DEF Decrypt
  <1>4. ASSUME good = FALSE, Raced(t)
        PROVE  Said(t, FALSE)
    BY <1>3, <1>4 DEF Said
  <1>5. ASSUME NEW k \in KeysSeen(t), good = (job[t].block = k)
        PROVE  Said(t, job[t].block = k)
    <2>1. ~ Raced(t) => k = pair
      BY DEF KeysSeen, Raced
    <2> QED
      BY <1>3, <1>5, <2>1 DEF Said
  <1>6. \E g \in BOOLEAN : Said(t, g)
    <2>1. CASE Raced(t) /\ good = FALSE
      BY <1>4, <2>1
    <2>2. CASE \E k \in KeysSeen(t) : good = (job[t].block = k)
      <3>1. PICK k \in KeysSeen(t) : good = (job[t].block = k)
        BY <2>2
      <3>2. (job[t].block = k) \in BOOLEAN
        OBVIOUS
      <3> QED
        BY <1>5, <3>1, <3>2
    <2> QED
      BY <1>3, <2>1, <2>2
  <1>7. Finish(t) /\ UNCHANGED <<theme, objects, locks, keys, told>>
    BY DEF Decrypt
  <1> QED
    BY <1>1, <1>2, <1>6, <1>7

LEMMA DecryptInv ==
    ASSUME Inv, NEW t \in Threads, Decrypt(t)
    PROVE  Inv'
  <1>1. CASE Restart
    BY <1>1, RestartInv
  <1>2. CASE ~ Restart
    <2>1. PICK good \in BOOLEAN : Said(t, good)
      BY <1>2, DecryptSays
    <2>2. [block |-> job[t].block, good |-> good] \in Verdicts
      <3>1. job[t].block \in {0} \cup Generations
        BY <1>2, DecryptSays, JobTypes
      <3> QED
        BY <2>1, <3>1 DEF Verdicts
    <2>3. verdict' \in [Threads -> Verdicts \cup {None}]
      BY <2>1, <2>2 DEF Said, Inv, TypeOK
    <2> QED
      BY <1>2, <2>3, DecryptSays, FinishInv DEF locks, Inv, TypeOK
  <1> QED
    BY <1>1, <1>2

LEMMA ToStringInv ==
    ASSUME Inv, NEW t \in Threads, ToString(t)
    PROVE  Inv'
  <1>1. CASE Restart
    BY <1>1, RestartInv
  <1>2. CASE ~ Restart
    BY <1>2, FinishInv DEF ToString, locks, Inv, TypeOK
  <1> QED
    BY <1>1, <1>2

-----------------------------------------------------------------------------
(* Steps of nobody, and of all *)

LEMMA InstallInv ==
    ASSUME Inv, NEW n \in Names, Install(n)
    PROVE  Inv'
  <1>1. TypeOK'
    BY DEF Install, objects, locks, keys, Inv, TypeOK
  <1>2. KeysSound'
    BY DEF Install, objects, locks, keys, Inv, KeysSound
  <1>3. ASSUME NEW t \in Threads PROVE JobSound(t, job[t])'
    BY DEF Install, objects, locks, keys, Inv, JobSound, KeyJobSound
  <1> QED
    BY <1>1, <1>2, <1>3 DEF Inv

LEMMA NextInv == Inv /\ [Next]_vars => Inv'
  <1> SUFFICES ASSUME Inv, [Next]_vars PROVE Inv'
    OBVIOUS
  <1>1. ASSUME NEW t \in Threads, NEW n \in Names, AskIcon(t, n) PROVE Inv'
    BY <1>1, AskIconInv
  <1>2. ASSUME NEW t \in Threads, NEW op \in KeyOps, AskKey(t, op) PROVE Inv'
    BY <1>2, AskKeyInv
  <1>3. ASSUME NEW t \in Threads, Wait(t) PROVE Inv'
    BY <1>3, LockCacheInv, GetInstanceInv, LockPairInv DEF Wait
  <1>4. ASSUME NEW t \in Threads, Find(t) PROVE Inv'
    BY <1>4, SearchCacheInv, LoadIconInv, InsertIconInv DEF Find
  <1>5. ASSUME NEW t \in Threads, Make(t) PROVE Inv'
    BY <1>5, ConstructInv, FreeKeyInv, GenerateKeyInv DEF Make
  <1>6. ASSUME NEW t \in Threads, Use(t) PROVE Inv'
    BY <1>6, TestInv, EncryptInv, DecryptInv, ToStringInv DEF Use
  <1>7. ASSUME NEW n \in Names, Install(n) PROVE Inv'
    BY <1>7, InstallInv
  <1>8. CASE Restart
    BY <1>8, RestartInv
  <1>9. CASE UNCHANGED vars
    <2>1. ASSUME NEW t \in Threads PROVE JobSound(t, job[t])'
      BY <1>9 DEF vars, objects, locks, keys, Inv, JobSound, KeyJobSound
    <2>2. TypeOK' /\ KeysSound'
      BY <1>9 DEF vars, objects, locks, keys, Inv, TypeOK, KeysSound
    <2> QED
      BY <2>1, <2>2 DEF Inv
  <1> QED
    BY <1>1, <1>2, <1>3, <1>4, <1>5, <1>6, <1>7, <1>8, <1>9 DEF Next

-----------------------------------------------------------------------------
(* Tokens *)

(* Only Decrypt finds anything of a block. *)
LEMMA VerdictFrom ==
    ASSUME Inv, [Next]_vars, NEW t \in Threads, verdict[t] = None, verdict'[t] # None
    PROVE  Decrypt(t) /\ ~ Restart
  <1>1. ~ Restart /\ ~ UNCHANGED verdict
    BY DEF Restart
  <1>2. ASSUME NEW u \in Threads PROVE ~ Clear(u)
    BY DEF Clear, Inv, TypeOK
  <1>3. PICK u \in Threads : Decrypt(u)
    BY <1>1, <1>2 DEF Next, vars, AskIcon, AskKey, Install, Wait, LockCache, GetInstance,
       LockPair, Find, SearchCache, LoadIcon, InsertIcon, Make, Construct, FreeKey,
       GenerateKey, Use, EncryptTest, Encrypt, DecryptSize, ToStringTest, ToString
  <1>4. u = t
    <2>1. PICK good \in BOOLEAN : Said(u, good)
      BY <1>1, <1>3, DecryptSays
    <2> QED
      BY <2>1 DEF Said, Inv, TypeOK
  <1> QED
    BY <1>1, <1>3, <1>4

LEMMA TokensNext ==
    ASSUME Inv, [Next]_vars, NEW t \in Threads, verdict[t] = None, verdict'[t] # None
    PROVE  /\ verdict'[t].good => job[t].valid
           /\ Held(job[t].block) => verdict'[t].good
  <1>1. Decrypt(t) /\ ~ Restart
    BY VerdictFrom
  <1>2. PICK good \in BOOLEAN : Said(t, good)
    BY <1>1, DecryptSays
  <1>3. verdict'[t].good = good
    BY <1>2 DEF Said, Inv, TypeOK
  <1>4. KeyJobSound(job[t]) /\ job[t].pc = "open" /\ job[t].block \in {0} \cup Generations
    BY <1>1, DecryptSays, JobTypes
  <1>5. ASSUME good PROVE job[t].valid
    <2>1. PICK k \in KeysSeen(t) : job[t].block = k
      BY <1>2, <1>5 DEF Said
    <2>2. CASE k = job[t].key
      BY <1>4, <2>1, <2>2 DEF KeyJobSound
    <2>3. CASE k = pair
      BY <1>4, <2>1, <2>3 DEF KeyJobSound
    <2> QED
      BY <2>1, <2>2, <2>3 DEF KeysSeen
  <1>6. ASSUME Held(job[t].block) PROVE good
    <2>1. job[t].block = pair
      BY <1>4, <1>6 DEF Held, Inv, KeysSound
    <2>2. ~ Raced(t)
      BY <1>4, <2>1 DEF KeyJobSound, Raced
    <2> QED
      BY <1>2, <2>1, <2>2 DEF Said
  <1> QED
    BY <1>3, <1>5, <1>6

-----------------------------------------------------------------------------
(* The properties of the runs, of every behaviour *)

LEMMA AlwaysInv == Spec => []Inv
  BY InitInv, NextInv, PTL DEF Spec

(* Every variable keeps its type: a thread is at a step of what it was asked,
   locks have one owner, and key pairs are numbered as they are made. *)
THEOREM SharedTypes == Spec => []TypeOK
  <1>1. Inv => TypeOK
    BY DEF Inv
  <1> QED
    BY <1>1, AlwaysInv, PTL

(* Nobody seals, opens or resets with a key pair that is not built: C++'s
   guard of a local static object is what KeyPair::getInstance relies on. *)
THEOREM NobodyUsesHalfAKey == Spec => []BuiltBeforeUse
  BY InvBuilt, AlwaysInv, PTL

(* One thread at a time is in the icon cache's map. *)
THEOREM OneThreadInCache == Spec => []OneInCache
  BY InvOne, AlwaysInv, PTL

(* What one thread sealed, any thread opens as long as the key is held, and
   none once it was given up, whatever resets come between the two readings
   of the key. *)
THEOREM HeldTokensOpen == Spec => TokensOpen
  <1>1. Inv /\ [Next]_vars =>
           [\A t \in Threads : verdict[t] = None /\ verdict'[t] # None =>
               /\ verdict'[t].good => job[t].valid
               /\ Held(job[t].block) => verdict'[t].good]_vars
    BY TokensNext
  <1> QED
    BY <1>1, AlwaysInv, PTL DEF Spec, TokensOpen

-----------------------------------------------------------------------------
(* The cache of icons is the book of WriteOnce. *)

(* A thread is told of an icon: the entry it found, or the one it made. *)
LEMMA IconTold ==
    ASSUME Inv, NEW t \in Threads, NEW n \in Names, NEW v \in Icons, Give(t, n, v),
           cache[n] \in {None, v}, cache' = [cache EXCEPT ![n] = v]
    PROVE  Book!Next
  <1>1. Book!Tell(t, n)
    BY DEF Book!Tell, Book!Decided, Give
  <1> QED
    BY <1>1 DEF Book!Next

LEMMA FindImplements ==
    ASSUME Inv, NEW t \in Threads, Find(t)
    PROVE  [Book!Next]_Book!vars
  <1>1. CASE SearchCache(t)
    <2> DEFINE n == job[t].name
    <2>1. n \in Names
      BY <1>1, JobTypes DEF SearchCache, At, IconJobs
    <2>2. CASE cache[n] # None
      <3>1. cache[n] \in Icons /\ cache' = [cache EXCEPT ![n] = cache[n]]
        BY <1>1, <2>1, <2>2 DEF SearchCache, objects, Inv, TypeOK
      <3>2. Give(t, n, cache[n])
        BY <1>1, <2>2 DEF SearchCache
      <3> QED
        BY <2>1, <3>1, <3>2, IconTold
    <2>3. CASE cache[n] = None
      BY <1>1, <2>3 DEF SearchCache, objects, Book!vars
    <2> QED
      BY <2>2, <2>3
  <1>2. CASE LoadIcon(t)
    BY <1>2 DEF LoadIcon, objects, Book!vars
  <1>3. CASE InsertIcon(t)
    <2> DEFINE n == job[t].name
               v == IF cache[n] = None THEN job[t].icon ELSE cache[n]
    <2>1. n \in Names /\ v \in Icons
      <3>1. job[t] \in IconJobs
        BY <1>3, JobTypes DEF InsertIcon, At
      <3> QED
        BY <3>1 DEF IconJobs, Inv, TypeOK
    <2>2. cache' = [cache EXCEPT ![n] = v] /\ Give(t, n, v)
      BY <1>3 DEF InsertIcon
    <2> QED
      BY <2>1, <2>2, IconTold
  <1> QED
    BY <1>1, <1>2, <1>3 DEF Find

LEMMA StepImplements == Inv /\ [Next]_vars => [Book!Next]_Book!vars
  <1> SUFFICES ASSUME Inv, [Next]_vars PROVE [Book!Next]_Book!vars
    OBVIOUS
  <1>1. ASSUME NEW t \in Threads, Clear(t), UNCHANGED objects PROVE Book!Next
    <2>1. Book!Ask(t)
      BY <1>1 DEF Clear, objects, Book!Ask
    <2> QED
      BY <2>1 DEF Book!Next
  <1>2. ASSUME NEW t \in Threads, NEW n \in Names, AskIcon(t, n) PROVE Book!Next
    BY <1>1, <1>2 DEF AskIcon
  <1>3. ASSUME NEW t \in Threads, NEW op \in KeyOps, AskKey(t, op) PROVE Book!Next
    BY <1>1, <1>3 DEF AskKey
  <1>4. ASSUME NEW t \in Threads, Wait(t) PROVE UNCHANGED Book!vars
    BY <1>4 DEF Wait, LockCache, GetInstance, LockPair, objects, Book!vars
  <1>5. ASSUME NEW n \in Names, Install(n) PROVE UNCHANGED Book!vars
    BY <1>5 DEF Install, objects, Book!vars
  <1>6. CASE Restart
    <2>1. Book!Restart
      BY <1>6 DEF Restart, Book!Restart
    <2> QED
      BY <2>1 DEF Book!Next
  <1>7. ASSUME NEW t \in Threads, Make(t), ~ Restart PROVE UNCHANGED Book!vars
    BY <1>7 DEF Make, Construct, FreeKey, GenerateKey, Book!vars
  <1>8. ASSUME NEW t \in Threads, Use(t), ~ Restart PROVE UNCHANGED Book!vars
    BY <1>8 DEF Use, EncryptTest, Encrypt, DecryptSize, Decrypt, ToStringTest, ToString,
       objects, Book!vars
  <1>9. CASE UNCHANGED vars
    BY <1>9 DEF vars, objects, Book!vars
  <1> QED
    BY <1>2, <1>3, <1>4, <1>5, <1>6, <1>7, <1>8, <1>9, FindImplements DEF Next

LEMMA InitImplements == Init => Book!Init
  BY DEF Init, Book!Init

(* The cache, with its lock and its loads, is a book written once by each
   run of the program: no thread is told two icons for one name. *)
THEOREM ImplementsWriteOnce == Spec => DecidedOnce
  BY InitImplements, StepImplements, AlwaysInv, PTL DEF Spec, DecidedOnce, Book!Spec
=============================================================================
