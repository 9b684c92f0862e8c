------------------------- MODULE DevKeygenProofs -------------------------
(***************************************************************************)
(* Proofs about DevKeygen for any number of runs: the types, that existing  *)
(* files are kept and that a success means a matching pair.                 *)
(***************************************************************************)
EXTENDS DevKeygen, TLAPS

Files == {"priv", "pub"}
Writing == {"open", "write", "chmod"}

(* A run comes to the public key only after the private one, and whatever it
   opened is there. *)
PathInv ==
    \A r \in Runs :
        /\ stage[r] \in {"idle", "mkdir", "generate"} => path[r] = "priv"
        /\ stage[r] \in {"write", "chmod"} => files[path[r]] # Absent

(* What was there when a run began is there while it is under way, and a run
   without -force that is past the check of a file did not find it. *)
KeepInv ==
    \A r \in Runs :
        /\ Underway(r) => \A f \in before[r] : files[f] # Absent
        /\ ~force[r] /\ stage[r] = "stat" /\ path[r] = "pub" => "priv" \notin before[r]
        /\ ~force[r] /\ (stage[r] = "generate" \/ stage[r] \in Writing) => before[r] = {}

(* What a run that was left alone has written is its key. *)
PairInv ==
    \A r \in Runs : apart[r] =>
        /\ stage[r] \in Writing /\ path[r] = "pub" => files["priv"] = Whole(r)
        /\ stage[r] = "chmod" => files[path[r]] = Whole(r)
        /\ stage[r] = "ok" => files["priv"] = Whole(r) /\ files["pub"] = Whole(r)

IInv == TypeOK /\ PathInv /\ KeepInv /\ PairInv

(* The contents of a file are told apart. *)
LEMMA Contents ==
    /\ Empty # Absent /\ Part # Absent
    /\ \A k : Whole(k) # Absent
  BY DEF Absent, Empty, Part, Whole

(* A step of one run that leaves the files alone. *)
LEMMA QuietStep ==
    ASSUME IInv, NEW r \in Runs, Quiet, Underway(r),
           path' \in [Runs -> Files], \A q \in Runs : q # r => path'[q] = path[q],
           NEW s, Reach(r, s), s \in {"error", "killed", "stat", "generate", "open", "ok"},
           s \in {"stat", "generate"} => path'[r] = "priv",
           s = "open" => \/ stage[r] = "generate" /\ path'[r] = "priv"
                         \/ stage[r] = "chmod" /\ path[r] = "priv" /\ path'[r] = "pub",
           s = "ok" => stage[r] = "chmod" /\ path[r] = "pub",
           s = "generate" /\ ~force[r] => before[r] = {}
    PROVE  IInv'
<1>1. /\ stage' = [stage EXCEPT ![r] = s]
      /\ UNCHANGED <<files, force, before, apart>>
  BY DEF Reach, Quiet
<1>2. /\ stage'[r] = s
      /\ \A q \in Runs : q # r => stage'[q] = stage[q] /\ path'[q] = path[q]
  BY <1>1 DEF IInv, TypeOK
<1>3. TypeOK'
  BY <1>1, <1>2 DEF IInv, TypeOK, PathInv, Files, Ended
<1>4. PathInv'
  BY <1>1, <1>2 DEF IInv, PathInv
<1>5. KeepInv'
  BY <1>1, <1>2 DEF IInv, KeepInv, Underway, Ended, Writing
<1>6. PairInv'
  BY <1>1, <1>2 DEF IInv, PairInv, Writing, TypeOK
<1> QED
  BY <1>3, <1>4, <1>5, <1>6 DEF IInv

(* A step of one run that puts something into the file it is at. *)
LEMMA PutStep ==
    ASSUME IInv, NEW r \in Runs, NEW c, Put(r, c),
           c \in {Empty, Part} \cup {Whole(k) : k \in Runs \cup {OldKey}},
           NEW s, Reach(r, s), s \in {"error", "killed", "write", "chmod"},
           stage[r] \in Writing,
           s = "chmod" => c = Whole(r)
    PROVE  IInv'
<1> DEFINE f == path[r]
<1>1. /\ stage' = [stage EXCEPT ![r] = s]
      /\ files' = [files EXCEPT ![f] = c]
      /\ apart' = [q \in Runs |-> apart[q] /\ (q = r \/ stage[q] = "idle")]
      /\ UNCHANGED <<path, force, before>>
  BY DEF Reach, Put, At
<1>2. c # Absent
  BY Contents
<1>3. /\ stage'[r] = s /\ files'[f] = c /\ f \in Files
      /\ \A q \in Runs : q # r => stage'[q] = stage[q]
      /\ \A g \in Files : g # f => files'[g] = files[g]
      /\ \A q \in Runs : apart'[q] => apart[q] /\ (q = r \/ stage[q] = "idle")
  BY <1>1 DEF IInv, TypeOK, Files
<1>4. TypeOK'
  <2>1. files' \in [{"priv", "pub"} -> {Absent, Empty, Part} \cup {Whole(k) : k \in Runs \cup {OldKey}}]
    BY <1>1 DEF IInv, TypeOK
  <2>2. apart' \in [Runs -> BOOLEAN]
    BY <1>1
  <2>3. stage' \in [Runs -> Ended \cup {"mkdir", "stat", "generate", "open", "write", "chmod"}]
    BY <1>1 DEF IInv, TypeOK, Ended
  <2>4. \A q \in Runs : path'[q] = "pub" /\ stage'[q] \in {"open", "write", "chmod"}
                           => files'["priv"] # Absent
    BY <1>1, <1>2, <1>3 DEF IInv, TypeOK, Writing, Files
  <2> QED
    BY <1>1, <2>1, <2>2, <2>3, <2>4 DEF IInv, TypeOK
<1>5. PathInv'
  BY <1>1, <1>2, <1>3 DEF IInv, PathInv, TypeOK, Files
<1>6. KeepInv'
  BY <1>1, <1>2, <1>3 DEF IInv, KeepInv, TypeOK, Underway, Ended, Writing, Files
<1>7. PairInv'
  BY <1>1, <1>3 DEF IInv, PairInv, TypeOK, Writing, Files
<1> QED
  BY <1>4, <1>5, <1>6, <1>7 DEF IInv

(* Every step keeps the invariant. *)
LEMMA Step == IInv /\ [Next]_vars => IInv'
<1> SUFFICES ASSUME IInv, [Next]_vars PROVE IInv'
  OBVIOUS
<1>0. path \in [Runs -> Files]
  BY DEF IInv, TypeOK, Files
<1>1. ASSUME NEW r \in Runs, Begin(r) PROVE IInv'
  <2>1. /\ stage[r] = "idle" /\ stage' = [stage EXCEPT ![r] = "mkdir"]
        /\ before' = [before EXCEPT ![r] = {f \in DOMAIN files : files[f] # Absent}]
        /\ UNCHANGED <<files, path, force, apart>>
    BY <1>1 DEF Begin, At, Reach
  <2>2. DOMAIN files = Files
    BY DEF IInv, TypeOK, Files
  <2>3. TypeOK'
    BY <2>1, <2>2 DEF IInv, TypeOK, Files, Ended
  <2>4. PathInv' /\ PairInv'
    BY <2>1 DEF IInv, PathInv, PairInv, TypeOK, Writing
  <2>5. KeepInv'
    BY <2>1, <2>2 DEF IInv, KeepInv, TypeOK, Underway, Ended, Writing
  <2> QED
    BY <2>3, <2>4, <2>5 DEF IInv
<1>2. ASSUME NEW r \in Runs, MkdirAll(r) PROVE IInv'
  <2>1. stage[r] = "mkdir" /\ path[r] = "priv" /\ Underway(r)
    BY <1>2 DEF MkdirAll, At, IInv, PathInv, Underway, Ended
  <2>2. CASE Fail(r)
    BY <1>0, <1>2, <2>1, <2>2, QuietStep DEF MkdirAll, Fail
  <2>3. CASE force[r] /\ Reach(r, "generate")
    BY <1>0, <1>2, <2>1, <2>3, QuietStep DEF MkdirAll
  <2>4. CASE ~force[r] /\ Reach(r, "stat")
    BY <1>0, <1>2, <2>1, <2>4, QuietStep DEF MkdirAll
  <2> QED
    BY <1>2, <2>2, <2>3, <2>4 DEF MkdirAll
<1>3. ASSUME NEW r \in Runs, Stat(r) PROVE IInv'
  <2>1. stage[r] = "stat" /\ Quiet /\ Underway(r)
    BY <1>3 DEF Stat, At, Underway, Ended
  <2>2. CASE Fail(r) /\ UNCHANGED path
    BY <1>0, <2>1, <2>2, QuietStep DEF Fail
  <2>3. CASE /\ files["priv"] = Absent /\ path[r] = "priv"
             /\ path' = [path EXCEPT ![r] = "pub"] /\ UNCHANGED stage
    <3>1. "priv" \notin before[r]
      BY <2>1, <2>3 DEF IInv, KeepInv
    <3>2. /\ path'[r] = "pub" /\ \A q \in Runs : q # r => path'[q] = path[q]
          /\ UNCHANGED <<files, force, before, apart, stage>>
      BY <2>1, <2>3 DEF IInv, TypeOK, Quiet
    <3>3. TypeOK'
      BY <2>1, <2>3, <3>2 DEF IInv, TypeOK
    <3>4. PathInv' /\ PairInv'
      BY <2>1, <3>2 DEF IInv, PathInv, PairInv, Writing
    <3>5. KeepInv'
      BY <2>1, <3>1, <3>2 DEF IInv, KeepInv, Underway, Writing
    <3> QED
      BY <3>3, <3>4, <3>5 DEF IInv
  <2>4. CASE /\ files["pub"] = Absent /\ path[r] = "pub"
             /\ path' = [path EXCEPT ![r] = "priv"] /\ Reach(r, "generate")
    <3>1. ~force[r] => before[r] \subseteq Files /\ "pub" \notin before[r] /\ "priv" \notin before[r]
      BY <2>1, <2>4 DEF IInv, KeepInv, TypeOK, Files
    <3>2. ~force[r] => before[r] = {}
      BY <3>1 DEF Files
    <3>3. /\ path' \in [Runs -> Files] /\ path'[r] = "priv"
          /\ \A q \in Runs : q # r => path'[q] = path[q]
      BY <1>0, <2>4 DEF Files
    <3> QED
      BY <2>1, <2>4, <3>2, <3>3, QuietStep
  <2>5. path[r] = "priv" \/ path[r] = "pub"
    BY DEF IInv, TypeOK
  <2> QED
    BY <1>3, <2>2, <2>3, <2>4, <2>5 DEF Stat
<1>4. ASSUME NEW r \in Runs, GenerateKey(r) PROVE IInv'
  <2>1. stage[r] = "generate" /\ path[r] = "priv" /\ Underway(r)
    BY <1>4 DEF GenerateKey, At, IInv, PathInv, Underway, Ended
  <2>2. CASE Fail(r)
    BY <1>0, <1>4, <2>1, <2>2, QuietStep DEF GenerateKey, Fail
  <2>3. CASE Reach(r, "open")
    BY <1>0, <1>4, <2>1, <2>3, QuietStep DEF GenerateKey
  <2> QED
    BY <1>4, <2>2, <2>3 DEF GenerateKey
<1>5. ASSUME NEW r \in Runs, Open(r) PROVE IInv'
  <2>1. stage[r] = "open" /\ stage[r] \in Writing /\ Underway(r)
    BY <1>5 DEF Open, At, Writing, Underway, Ended
  <2>2. CASE Fail(r) /\ UNCHANGED path /\ Quiet
    BY <1>0, <2>1, <2>2, QuietStep DEF Fail
  <2>3. CASE Reach(r, "write") /\ Put(r, Empty)
    BY <2>1, <2>3, PutStep
  <2> QED
    BY <1>5, <2>2, <2>3 DEF Open
<1>6. ASSUME NEW r \in Runs, Write(r) PROVE IInv'
  <2>1. stage[r] = "write" /\ stage[r] \in Writing
    BY <1>6 DEF Write, At, Writing
  <2>2. files[path[r]] \in {Empty, Part} \cup {Whole(k) : k \in Runs \cup {OldKey}}
    BY <2>1 DEF IInv, TypeOK, PathInv
  <2>3. Whole(r) \in {Whole(k) : k \in Runs \cup {OldKey}}
    OBVIOUS
  <2>4. CASE Reach(r, "chmod") /\ Put(r, Whole(r))
    BY <2>1, <2>3, <2>4, PutStep
  <2>5. ASSUME Fail(r), NEW c \in {files[path[r]], Part, Whole(r)}, Put(r, c)
        PROVE  IInv'
    <3>1. c \in {Empty, Part} \cup {Whole(k) : k \in Runs \cup {OldKey}}
      BY <2>2, <2>3, <2>5
    <3> QED
      BY <2>1, <2>5, <3>1, PutStep DEF Fail
  <2> QED
    BY <1>6, <2>4, <2>5 DEF Write
<1>7. ASSUME NEW r \in Runs, Chmod(r) PROVE IInv'
  <2>1. stage[r] = "chmod" /\ Quiet /\ Underway(r)
    BY <1>7 DEF Chmod, At, Underway, Ended
  <2>2. CASE Fail(r) /\ UNCHANGED path
    BY <1>0, <2>1, <2>2, QuietStep DEF Fail
  <2>3. CASE path[r] = "priv" /\ Reach(r, "open") /\ path' = [path EXCEPT ![r] = "pub"]
    <3>1. /\ path' \in [Runs -> Files] /\ path'[r] = "pub"
          /\ \A q \in Runs : q # r => path'[q] = path[q]
      BY <1>0, <2>3 DEF Files
    <3> QED
      BY <2>1, <2>3, <3>1, QuietStep
  <2>4. CASE path[r] = "pub" /\ Reach(r, "ok") /\ UNCHANGED path
    BY <1>0, <2>1, <2>4, QuietStep
  <2> QED
    BY <1>7, <2>2, <2>3, <2>4 DEF Chmod
<1>8. ASSUME NEW r \in Runs, Kill(r) PROVE IInv'
  <2>1. CASE UNCHANGED path /\ Quiet
    BY <1>0, <1>8, <2>1, QuietStep DEF Kill
  <2>2. CASE At(r, "write") /\ Put(r, Part)
    BY <1>8, <2>2, PutStep DEF Kill, At, Writing
  <2> QED
    BY <1>8, <2>1, <2>2 DEF Kill
<1>9. ASSUME NEW f \in DOMAIN files, Remove(f) PROVE IInv'
  <2>1. /\ f \in Files /\ \A r \in Runs : ~Underway(r)
        /\ files' = [files EXCEPT ![f] = Absent]
        /\ apart' = [r \in Runs |-> apart[r] /\ stage[r] = "idle"]
        /\ UNCHANGED <<stage, path, force, before>>
    BY <1>9 DEF Remove, IInv, TypeOK, Files, At
  <2>2. TypeOK'
    BY <2>1 DEF IInv, TypeOK, Underway, Ended
  <2>3. PathInv' /\ PairInv'
    BY <2>1 DEF IInv, PathInv, PairInv, TypeOK, Underway, Ended, Writing
  <2>4. KeepInv'
    BY <2>1 DEF IInv, KeepInv, TypeOK, Underway, Ended, Writing
  <2> QED
    BY <2>2, <2>3, <2>4 DEF IInv
<1>10. CASE UNCHANGED vars
  BY <1>10 DEF vars, IInv, TypeOK, PathInv, KeepInv, PairInv, Underway
<1> QED
  BY <1>1, <1>2, <1>3, <1>4, <1>5, <1>6, <1>7, <1>8, <1>9, <1>10 DEF Next

(* The invariant holds when nobody has begun. *)
LEMMA Start == Init => IInv
  BY DEF Init, IInv, TypeOK, PathInv, KeepInv, PairInv, Underway, Ended, Writing

(* The variables stay in their types, and a run at the public key has left a file
   for the private one. *)
THEOREM DevKeygenTypeOK == Spec => []TypeOK
<1>1. IInv => TypeOK
  BY DEF IInv
<1> QED
  BY Start, Step, <1>1, PTL DEF Spec

(* A success that nobody disturbed means both halves of one key. *)
THEOREM SuccessCorrect == Spec => []SuccessMeansPair
<1>1. IInv => SuccessMeansPair
  BY DEF IInv, PairInv, TypeOK, SuccessMeansPair, At
<1> QED
  BY Start, Step, <1>1, PTL DEF Spec

(* Files that a run without -force found are not changed by it (F-14). *)
THEOREM ExistingFilesCorrect == Spec => ExistingFilesKept
<1> DEFINE Kept == \A r \in Runs : ~force[r] /\ stage'[r] # stage[r]
                     => \A f \in before[r] : files'[f] = files[f]
<1>1. IInv /\ [Next]_vars => [Kept]_vars
  <2> SUFFICES ASSUME IInv, Next, NEW r \in Runs, ~force[r], stage'[r] # stage[r],
                      NEW f \in before[r]
               PROVE  files'[f] = files[f]
    OBVIOUS
  <2>1. ~(stage[r] \in Writing)
    BY DEF IInv, KeepInv
  <2>2. ASSUME NEW q \in Runs, Begin(q) \/ MkdirAll(q) \/ Stat(q) \/ GenerateKey(q) \/ Chmod(q)
        PROVE  files' = files
    BY <2>2 DEF Begin, MkdirAll, Stat, GenerateKey, Chmod, Quiet
  <2>3. ASSUME NEW q \in Runs, Open(q) \/ Write(q) \/ Kill(q)
        PROVE  files'[f] = files[f]
    <3>1. q = r
      BY <2>3 DEF Open, Write, Kill, Reach, Fail, IInv, TypeOK
    <3> QED
      BY <2>1, <2>3, <3>1 DEF Open, Write, Kill, At, Writing, Quiet
  <2>4. ASSUME NEW g \in DOMAIN files, Remove(g)
        PROVE  FALSE
    BY <2>4 DEF Remove
  <2> QED
    BY <2>2, <2>3, <2>4 DEF Next
<1> QED
  BY Start, Step, <1>1, PTL DEF Spec, ExistingFilesKept

==========================================================================
