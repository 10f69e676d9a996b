-------------------------- MODULE ConfigFixProofs ---------------------------
(***************************************************************************)
(* Proofs about ConfigFix.  The types and the permission bits are right    *)
(* for any number of fixers and users; that a config is never torn, can    *)
(* always be restored, and is clean after a run is proved for the fixer    *)
(* that is alone, which is all the code can promise without a lock.        *)
(***************************************************************************)
EXTENDS ConfigFix, TLAPS

(* The steps at which a fixer has a file in hand.                          *)
Working == {"backup", "copy", "stamp", "open", "write", "replace"}

(* The steps of the finally clause.                                        *)
Cleaning == {"tidy", "undo", "unlink", "discard"}

(* What a fixer may rely on whoever else is at work.                       *)
SharedInv ==
  \A f \in Fixer :
    /\ pc[f] \in Working \union Cleaning => next[f] <= Len(Order)
    /\ pc[f] \in Working \ {"backup"} => backup[Here(f)] # Absent
    /\ fd[f] = "tmp" => tmp[Here(f)] # Absent

TypeInv == TypeOK /\ SharedInv

(* The files of Order are paths.                                           *)
LEMMA OrderedPath == \A i \in 1 .. Len(Order) : Order[i] \in Path
BY FixAssumption DEF Path

(* The file a fixer has in hand is a path.                                 *)
LEMMA HereIsPath ==
  ASSUME TypeOK, SharedInv, NEW f \in Fixer, pc[f] \in Working \union Cleaning
  PROVE  Here(f) \in Path
<1>1. next[f] \in 1 .. Len(Order)
  <2>1. next[f] \in 1 .. Len(Order) + 1 /\ next[f] <= Len(Order)
    BY DEF TypeOK, SharedInv
  <2>2. Len(Order) \in Nat
    BY FixAssumption
  <2> QED BY <2>1, <2>2
<1> QED BY <1>1, OrderedPath DEF Here

(* What pruning does to a content.                                         *)
LEMMA PrunedContent ==
  \A text \in Content : /\ Pruned(text) \in Content
                        /\ Pruned(text) \intersect Unsafe = {}
                        /\ Pruned(Pruned(text)) = Pruned(text)
BY ContentAssumption DEF Content, Pruned, Torn

(* Contents and files a fixer writes are contents and files.               *)
LEMMA OverwrittenContent ==
  \A old, new \in Content : Overwritten(old, new) \subseteq Content
BY DEF Overwritten, Content

(* Renames move an open file to a name it can have.                        *)
LEMMA RelinkedType ==
  ASSUME TypeOK, NEW p, NEW to \in {ByReplace, BySave, ByUnlink}
  PROVE  /\ Relinked(p, to) \in [Fixer -> {"none", "tmp", "config", "unlinked"}]
         /\ \A f \in Fixer : Relinked(p, to)[f] = "none" <=> fd[f] = "none"
         /\ \A f \in Fixer : Relinked(p, to)[f] = "tmp" => fd[f] = "tmp"
         /\ \A f \in Fixer : Relinked(p, to)[f] = "tmp" /\ to # BySave => Here(f) # p
<1>1. fd \in [Fixer -> {"none", "tmp", "config", "unlinked"}]
  BY DEF TypeOK
<1>2. /\ \A n \in {"tmp", "config", "unlinked"} : to[n] \in {"tmp", "config", "unlinked"}
      /\ \A n \in {"tmp", "config", "unlinked"} : to[n] = "tmp" => n = "tmp" /\ to = BySave
  BY DEF ByReplace, BySave, ByUnlink
<1> QED BY <1>1, <1>2 DEF Relinked

(* A process that ends leaves its variables well typed.                    *)
LEMMA GoneType ==
  ASSUME TypeOK, NEW f \in Fixer, Gone(f)
  PROVE  /\ pc' = [pc EXCEPT ![f] = "idle"]
         /\ pc' \in [Fixer -> {"idle", "read", "backup", "copy", "stamp", "open", "write",
                              "replace", "tidy", "undo", "unlink", "discard", "done"}]
         /\ next' \in [Fixer -> 1 .. Len(Order) + 1]
         /\ plan' \in [Fixer -> Content]
         /\ source' \in [Fixer -> Content]
         /\ mode' \in [Fixer -> SUBSET Bit]
         /\ passed' \in [Fixer -> SUBSET Path]
<1>1. Torn \in Content
  BY DEF Content
<1>2. 1 \in 1 .. Len(Order) + 1
  BY FixAssumption
<1>3. /\ pc' = [pc EXCEPT ![f] = "idle"]
      /\ pc' \in [Fixer -> {"idle", "read", "backup", "copy", "stamp", "open", "write",
                           "replace", "tidy", "undo", "unlink", "discard", "done"}]
  BY DEF TypeOK, Gone, GoTo
<1>4. next' \in [Fixer -> 1 .. Len(Order) + 1]
  BY <1>2 DEF TypeOK, Gone
<1>5. plan' \in [Fixer -> Content] /\ source' \in [Fixer -> Content]
  BY <1>1 DEF TypeOK, Gone
<1>6. mode' \in [Fixer -> SUBSET Bit] /\ passed' \in [Fixer -> SUBSET Path]
  BY DEF TypeOK, Gone
<1> QED BY <1>3, <1>4, <1>5, <1>6

(* The initial state has its types.                                        *)
LEMMA TypeInit == Init => TypeInv
<1> SUFFICES ASSUME Init PROVE TypeInv
  OBVIOUS
<1>1. Len(Order) \in Nat
  BY FixAssumption
<1>2. TypeOK
  BY <1>1, FixAssumption DEF Init, TypeOK, File, Content
<1>3. SharedInv
  BY DEF Init, SharedInv, Working, Cleaning
<1> QED BY <1>2, <1>3 DEF TypeInv

(* Every step keeps the types.                                             *)
LEMMA TypeStep == TypeInv /\ [Next]_vars => TypeInv'
<1> SUFFICES ASSUME TypeOK, SharedInv, [Next]_vars
             PROVE  TypeOK' /\ SharedInv'
  BY DEF TypeInv
<1> USE DEF TypeOK, SharedInv, Working, Cleaning
<1>0. Len(Order) \in Nat /\ Umask \subseteq Bit /\ UserMode \subseteq SUBSET Bit
      /\ Absent \notin File /\ Torn \in Content
  BY FixAssumption DEF Content
<1>1. ASSUME NEW f \in Fixer, Start(f) PROVE TypeOK' /\ SharedInv'
  BY <1>1 DEF Start, GoTo, disk, Here
<1>2. ASSUME NEW f \in Fixer, ReadAndPlan(f) PROVE TypeOK' /\ SharedInv'
  <2>1. Here(f) \in Path
    BY <1>2, <1>0, OrderedPath DEF ReadAndPlan, Here
  <2>2. Pruned(config[Here(f)].data) \in Content
    BY <2>1, PrunedContent DEF File
  <2> QED BY <1>2, <1>0, <2>2 DEF ReadAndPlan, GoTo, disk, Here
<1>3. ASSUME NEW f \in Fixer, LeaveAlone(f) PROVE TypeOK' /\ SharedInv'
  BY <1>3, <1>0 DEF LeaveAlone, disk, Here
<1>16. ASSUME NEW f \in Fixer, PassOver(f) PROVE TypeOK' /\ SharedInv'
  <2>1. Here(f) \in Path
    BY <1>16, <1>0, OrderedPath DEF PassOver, Here
  <2>2. passed' \in [Fixer -> SUBSET Path]
    BY <1>16, <2>1 DEF PassOver
  <2> QED BY <1>16, <1>0, <2>2 DEF PassOver, disk, Here
<1>4. ASSUME NEW f \in Fixer, StartBackup(f) PROVE TypeOK' /\ SharedInv'
  <2>1. Here(f) \in Path
    BY <1>4, HereIsPath DEF StartBackup
  <2>2. config[Here(f)].data \in Content
    BY <2>1 DEF File
  <2>3. backup' \in [Path -> File \union {Absent}]
    BY <1>4, <1>0, <2>1 DEF StartBackup, File
  <2>4. backup'[Here(f)] # Absent
    BY <1>4, <1>0, <2>1 DEF StartBackup, File
  <2>5. \A p \in Path : backup'[p] = backup[p] \/ backup'[p] # Absent
    BY <1>4, <2>4, <2>1 DEF StartBackup
  <2>6. TypeOK'
    BY <1>4, <2>2, <2>3 DEF StartBackup, GoTo
  <2>7. SharedInv'
    BY <1>4, <2>4, <2>5, <2>1, HereIsPath DEF StartBackup, GoTo, Here
  <2> QED BY <2>6, <2>7
<1>5. ASSUME NEW f \in Fixer, CopyBackup(f) PROVE TypeOK' /\ SharedInv'
  <2>1. Here(f) \in Path /\ backup[Here(f)] \in File
    BY <1>5, HereIsPath DEF CopyBackup
  <2>2. /\ backup' \in [Path -> File \union {Absent}]
        /\ backup'[Here(f)] # Absent
        /\ \A p \in Path : p # Here(f) => backup'[p] = backup[p]
    <3>1. backup' = [backup EXCEPT ![Here(f)].data = source[f]]
      BY <1>5 DEF CopyBackup
    <3>2. [backup[Here(f)] EXCEPT !.data = source[f]] \in File
      BY <2>1 DEF File
    <3> QED BY <3>1, <3>2, <2>1, <1>0
  <2>3. TypeOK'
    BY <1>5, <2>2 DEF CopyBackup, GoTo
  <2>4. SharedInv'
    BY <1>5, <2>1, <2>2, HereIsPath DEF CopyBackup, GoTo, Here
  <2> QED BY <2>3, <2>4
<1>6. ASSUME NEW f \in Fixer, StampBackup(f) PROVE TypeOK' /\ SharedInv'
  <2>1. Here(f) \in Path /\ backup[Here(f)] \in File /\ config[Here(f)] \in File
    BY <1>6, HereIsPath DEF StampBackup
  <2>2. config[Here(f)].mode \in SUBSET Bit
    BY <2>1 DEF File
  <2>3. /\ backup' \in [Path -> File \union {Absent}]
        /\ backup'[Here(f)] # Absent
        /\ \A p \in Path : p # Here(f) => backup'[p] = backup[p]
    <3>1. backup' = [backup EXCEPT ![Here(f)].mode = config[Here(f)].mode]
      BY <1>6 DEF StampBackup
    <3>2. [backup[Here(f)] EXCEPT !.mode = config[Here(f)].mode] \in File
      BY <2>1, <2>2 DEF File
    <3> QED BY <3>1, <3>2, <2>1, <1>0
  <2>4. TypeOK'
    BY <1>6, <2>2, <2>3 DEF StampBackup, GoTo
  <2>5. SharedInv'
    BY <1>6, <2>1, <2>3, HereIsPath DEF StampBackup, GoTo, Here
  <2> QED BY <2>4, <2>5
<1>7. ASSUME NEW f \in Fixer, OpenTmp(f) PROVE TypeOK' /\ SharedInv'
  <2>1. Here(f) \in Path
    BY <1>7, HereIsPath DEF OpenTmp
  <2>2. mode[f] \ Umask \in SUBSET Bit
    OBVIOUS
  <2>3. /\ tmp' \in [Path -> File \union {Absent}]
        /\ tmp'[Here(f)] # Absent
        /\ \A p \in Path : p # Here(f) => tmp'[p] = tmp[p]
    BY <1>7, <1>0, <2>1, <2>2 DEF OpenTmp, File
  <2>4. TypeOK'
    BY <1>7, <2>3 DEF OpenTmp, GoTo
  <2>5. ASSUME NEW g \in Fixer, fd'[g] = "tmp" PROVE tmp'[Here(g)] # Absent
    <3>1. CASE g = f
      BY <3>1, <2>3
    <3>2. CASE g # f
      <4>1. fd[g] = "tmp" /\ pc[g] = "write"
        BY <3>2, <2>5, <1>7 DEF OpenTmp
      <4>2. Here(g) \in Path
        BY <4>1, HereIsPath
      <4> QED BY <4>1, <4>2, <2>3
    <3> QED BY <3>1, <3>2
  <2>6. \A g \in Fixer : Here(g)' = Here(g)
    BY <1>7 DEF OpenTmp, Here
  <2>7. SharedInv'
    BY <1>7, <2>5, <2>6 DEF OpenTmp, GoTo
  <2> QED BY <2>4, <2>7
<1>8. ASSUME NEW f \in Fixer, WriteTmp(f) PROVE TypeOK' /\ SharedInv'
  <2>1. Here(f) \in Path /\ plan[f] \in Content /\ config[Here(f)] \in File
    BY <1>8, HereIsPath DEF WriteTmp
  <2>2. fd[f] = "tmp" => tmp[Here(f)] \in File
    BY <2>1
  <2>3. /\ tmp' \in [Path -> File \union {Absent}]
        /\ config' \in [Path -> File]
        /\ \A p \in Path : tmp[p] # Absent => tmp'[p] # Absent
    <3>1. CASE fd[f] = "tmp"
      <4>1. tmp[Here(f)].data \in Content
        BY <2>2, <3>1 DEF File
      <4>2. PICK text \in Overwritten(tmp[Here(f)].data, plan[f]) :
              tmp' = [tmp EXCEPT ![Here(f)].data = text]
        BY <1>8, <3>1 DEF WriteTmp
      <4>3. text \in Content
        BY <4>1, <4>2, <2>1, OverwrittenContent
      <4>4. UNCHANGED config
        BY <1>8, <3>1 DEF WriteTmp
      <4>5. [tmp[Here(f)] EXCEPT !.data = text] \in File
        BY <4>3, <2>2, <3>1 DEF File
      <4>6. tmp' = [tmp EXCEPT ![Here(f)] = [tmp[Here(f)] EXCEPT !.data = text]]
        BY <4>2
      <4>7. tmp' \in [Path -> File \union {Absent}]
        BY <4>5, <4>6, <2>1
      <4>8. ASSUME NEW p \in Path, tmp[p] # Absent PROVE tmp'[p] # Absent
        <5>1. CASE p = Here(f)
          BY <4>5, <4>6, <5>1, <1>0
        <5>2. CASE p # Here(f)
          BY <4>6, <4>8, <5>2
        <5> QED BY <5>1, <5>2
      <4> QED BY <4>4, <4>7, <4>8
    <3>2. CASE fd[f] = "config"
      <4>1. config[Here(f)].data \in Content
        BY <2>1 DEF File
      <4>2. PICK text \in Overwritten(config[Here(f)].data, plan[f]) :
              config' = [config EXCEPT ![Here(f)].data = text]
        BY <1>8, <3>2 DEF WriteTmp
      <4>3. text \in Content
        BY <4>1, <4>2, <2>1, OverwrittenContent
      <4>4. UNCHANGED tmp
        BY <1>8, <3>2 DEF WriteTmp
      <4> QED BY <4>2, <4>3, <4>4, <2>1 DEF File
    <3>3. CASE fd[f] = "unlinked"
      BY <1>8, <3>3 DEF WriteTmp
    <3> QED BY <1>8, <3>1, <3>2, <3>3 DEF WriteTmp
  <2>4. TypeOK'
    BY <1>8, <2>3 DEF WriteTmp, GoTo
  <2>5. \A g \in Fixer : Here(g)' = Here(g)
    BY <1>8 DEF WriteTmp, Here
  <2>6. \A g \in Fixer : fd[g] = "tmp" => Here(g) \in Path
    BY HereIsPath
  <2>7. SharedInv'
    BY <1>8, <2>3, <2>5, <2>6 DEF WriteTmp, GoTo
  <2> QED BY <2>4, <2>7
<1>9. ASSUME NEW f \in Fixer, Replace(f) PROVE TypeOK' /\ SharedInv'
  <2>1. Here(f) \in Path /\ tmp[Here(f)] \in File
    BY <1>9, HereIsPath DEF Replace
  <2>2. config' \in [Path -> File] /\ tmp' \in [Path -> File \union {Absent}]
    BY <1>9, <2>1 DEF Replace
  <2>4. /\ fd' \in [Fixer -> {"none", "tmp", "config", "unlinked"}]
        /\ \A g \in Fixer : fd'[g] = "none" <=> fd[g] = "none"
        /\ \A g \in Fixer : fd'[g] = "tmp" => fd[g] = "tmp" /\ Here(g) # Here(f)
    <3>1. ByReplace # BySave
      BY DEF ByReplace, BySave
    <3> QED BY <1>9, <3>1, RelinkedType DEF Replace
  <2>5. TypeOK'
    BY <1>9, <2>2, <2>4 DEF Replace, GoTo
  <2>6. \A g \in Fixer : Here(g)' = Here(g)
    BY <1>9 DEF Replace, Here
  <2>7. \A g \in Fixer : fd[g] = "tmp" => pc[g] = "write" /\ Here(g) \in Path /\ g # f
    BY <1>9, HereIsPath DEF Replace
  <2>8. \A g \in Fixer : fd'[g] = "tmp" => tmp'[Here(g)'] # Absent
    BY <1>9, <2>4, <2>6, <2>7 DEF Replace
  <2>9. SharedInv'
    BY <1>9, <2>6, <2>8 DEF Replace, GoTo
  <2> QED BY <2>5, <2>9
<1>17. ASSUME NEW f \in Fixer, ReplaceFails(f) PROVE TypeOK' /\ SharedInv'
  <2>1. fd[f] = "none"
    BY <1>17 DEF ReplaceFails
  <2> QED BY <1>17, <2>1 DEF ReplaceFails, GoTo, disk, Here
<1>18. ASSUME NEW f \in Fixer, Gone(f), pc[f] \notin {"idle", "write"},
              UNCHANGED <<disk, saved, fd>>
       PROVE  TypeOK' /\ SharedInv'
  <2>1. fd[f] = "none"
    BY <1>18
  <2>2. TypeOK'
    BY <1>18, <2>1, GoneType DEF disk
  <2>3. \A g \in Fixer : g # f => Here(g)' = Here(g)
    BY <1>18 DEF Gone, Here
  <2>4. SharedInv'
    BY <1>18, <2>1, <2>3 DEF Gone, GoTo, disk
  <2> QED BY <2>2, <2>4
<1>10. ASSUME NEW f \in Fixer, Exit(f) \/ UnlinkFails(f) PROVE TypeOK' /\ SharedInv'
  BY <1>10, <1>18 DEF Exit, UnlinkFails
<1>19. ASSUME NEW f \in Fixer, Tidy(f) PROVE TypeOK' /\ SharedInv'
  <2>1. CASE tmp[Here(f)] = Absent
    <3>1. /\ pc[f] = "tidy" /\ fd[f] = "none" /\ next[f] <= Len(Order)
          /\ next' = [next EXCEPT ![f] = @ + 1] /\ pc' = [pc EXCEPT ![f] = "read"]
          /\ UNCHANGED <<disk, saved, plan, source, mode, fd, passed>>
      BY <1>19, <2>1 DEF Tidy, GoTo
    <3>2. next' \in [Fixer -> 1 .. Len(Order) + 1]
      BY <3>1, <1>0
    <3>3. TypeOK'
      BY <3>1, <3>2 DEF disk
    <3>4. SharedInv'
      BY <3>1 DEF disk, Here
    <3> QED BY <3>3, <3>4
  <2>2. CASE tmp[Here(f)] # Absent
    <3>1. /\ pc[f] = "tidy" /\ fd[f] = "none" /\ next[f] <= Len(Order)
          /\ next' = next /\ pc' = [pc EXCEPT ![f] = "unlink"]
          /\ UNCHANGED <<disk, saved, plan, source, mode, fd, passed>>
      BY <1>19, <2>2 DEF Tidy, GoTo
    <3> QED BY <3>1 DEF disk, Here
  <2> QED BY <2>1, <2>2
<1>20. ASSUME NEW f \in Fixer, Undo(f) PROVE TypeOK' /\ SharedInv'
  <2>1. CASE Gone(f)
    BY <1>18, <1>20, <2>1 DEF Undo
  <2>2. CASE ~ Gone(f)
    <3>1. /\ pc[f] = "undo" /\ fd[f] = "none" /\ next[f] <= Len(Order)
          /\ pc' = [pc EXCEPT ![f] = "discard"]
          /\ UNCHANGED <<disk, saved, next, plan, source, mode, fd, passed>>
      BY <1>20, <2>2 DEF Undo, GoTo
    <3> QED BY <3>1 DEF disk, Here
  <2> QED BY <2>1, <2>2
<1>11. ASSUME NEW f \in Fixer, Finish(f) PROVE TypeOK' /\ SharedInv'
  BY <1>11, <1>0 DEF Finish, GoTo, disk, Here
<1>12. ASSUME NEW f \in Fixer, WriteFails(f) PROVE TypeOK' /\ SharedInv'
  BY <1>12 DEF WriteFails, GoTo, disk, Here
<1>21. ASSUME NEW f \in Fixer, UnlinkTmp(f) PROVE TypeOK' /\ SharedInv'
  <2>1. /\ Here(f) \in Path /\ UNCHANGED <<config, backup, saved>>
        /\ pc[f] \in {"unlink", "discard"} /\ fd[f] = "none" /\ next[f] <= Len(Order)
        /\ tmp' = [tmp EXCEPT ![Here(f)] = Absent]
        /\ fd' = Relinked(Here(f), ByUnlink)
    BY <1>21, HereIsPath DEF UnlinkTmp
  <2>2. /\ fd' \in [Fixer -> {"none", "tmp", "config", "unlinked"}]
        /\ \A g \in Fixer : fd'[g] = "none" <=> fd[g] = "none"
        /\ \A g \in Fixer : fd'[g] = "tmp" => fd[g] = "tmp" /\ Here(g) # Here(f)
    <3>1. ByUnlink # BySave
      BY DEF ByUnlink, BySave
    <3> QED BY <2>1, <3>1, RelinkedType
  <2>3. /\ next' \in [Fixer -> 1 .. Len(Order) + 1] /\ plan' \in [Fixer -> Content]
        /\ source' \in [Fixer -> Content] /\ mode' \in [Fixer -> SUBSET Bit]
        /\ passed' \in [Fixer -> SUBSET Path]
        /\ \A g \in Fixer : g # f => next'[g] = next[g]
        /\ \E label \in {"read", "idle"} : pc' = [pc EXCEPT ![f] = label]
    <3>1. CASE Gone(f)
      BY <3>1, GoneType DEF Gone
    <3>2. CASE ~ Gone(f)
      <4>1. /\ next' = [next EXCEPT ![f] = @ + 1] /\ pc' = [pc EXCEPT ![f] = "read"]
            /\ UNCHANGED <<plan, source, mode, passed>>
        BY <1>21, <3>2 DEF UnlinkTmp, GoTo
      <4> QED BY <4>1, <2>1, <1>0
    <3> QED BY <3>1, <3>2
  <2>4. tmp' \in [Path -> File \union {Absent}]
    BY <2>1
  <2>5. TypeOK'
    BY <2>1, <2>2, <2>3, <2>4
  <2>6. \A g \in Fixer : g # f => Here(g)' = Here(g)
    BY <2>3 DEF Here
  <2>7. \A g \in Fixer : fd'[g] = "tmp" => Here(g) \in Path /\ g # f
    BY <2>1, <2>2, HereIsPath
  <2>8. \A g \in Fixer : fd'[g] = "tmp" => tmp'[Here(g)'] # Absent
    BY <2>1, <2>2, <2>6, <2>7
  <2>9. SharedInv'
    BY <2>1, <2>3, <2>6, <2>8
  <2> QED BY <2>5, <2>9
<1>13. ASSUME NEW f \in Fixer, Crash(f) PROVE TypeOK' /\ SharedInv'
  <2>1. Gone(f) /\ UNCHANGED <<disk, saved>> /\ fd' = [fd EXCEPT ![f] = "none"]
    BY <1>13 DEF Crash
  <2>2. TypeOK'
    BY <2>1, GoneType DEF disk
  <2>3. \A g \in Fixer : g # f => Here(g)' = Here(g)
    BY <2>1 DEF Gone, Here
  <2>4. SharedInv'
    BY <2>1, <2>3 DEF Gone, GoTo, disk
  <2> QED BY <2>2, <2>4
<1>14. ASSUME NEW p \in Path, NEW file \in [data : Content, mode : UserMode], Save(p, file)
       PROVE  TypeOK' /\ SharedInv'
  <2>1. file \in File
    BY <1>0 DEF File
  <2>2. /\ fd' \in [Fixer -> {"none", "tmp", "config", "unlinked"}]
        /\ \A g \in Fixer : fd'[g] = "none" <=> fd[g] = "none"
        /\ \A g \in Fixer : fd'[g] = "tmp" => fd[g] = "tmp"
    BY <1>14, RelinkedType DEF Save
  <2>3. TypeOK'
    BY <1>14, <2>1, <2>2 DEF Save
  <2>4. \A g \in Fixer : Here(g)' = Here(g)
    BY <1>14 DEF Save, Here
  <2>5. SharedInv'
    BY <1>14, <2>2, <2>4 DEF Save
  <2> QED BY <2>3, <2>5
<1>15. CASE UNCHANGED vars
  BY <1>15 DEF vars, disk, proc, Here
<1> QED
  BY <1>1, <1>2, <1>3, <1>4, <1>5, <1>6, <1>7, <1>8, <1>9, <1>10, <1>11, <1>12, <1>13,
     <1>14, <1>15, <1>16, <1>17, <1>19, <1>20, <1>21 DEF Next, Program

(* The variables of the fixers and the files keep their types, for any     *)
(* number of files, fixers and users.                                      *)
THEOREM FixTypeInvariant == Spec => []TypeInv
BY TypeInit, TypeStep, PTL DEF Spec

THEOREM FixTypeCorrect == Spec => []TypeOK
<1>1. TypeInv => TypeOK
  BY DEF TypeInv
<1> QED BY <1>1, FixTypeInvariant, PTL

(* The mode of a config comes from its user, through a temporary file that *)
(* may be left from an earlier run: what is bounded is bounded by all the  *)
(* modes users give.                                                       *)
ModeInv ==
  /\ \A p \in Path : config[p].mode \subseteq UNION UserMode /\ saved[p].mode \in UserMode
  /\ \A p \in Path : tmp[p] # Absent => tmp[p].mode \subseteq UNION UserMode
  /\ \A f \in Fixer : mode[f] \subseteq UNION UserMode

LEMMA ModeStep ==
  ASSUME TypeInv, ModeInv, [Next]_vars
  PROVE  ModeInv'
<1> USE DEF Working, Cleaning
<1>0. Absent \notin File
  BY FixAssumption
<1>1. ASSUME NEW f \in Fixer, UNCHANGED <<config, tmp, saved>>, mode'[f] \subseteq UNION UserMode,
             \A g \in Fixer : g # f => mode'[g] = mode[g]
      PROVE  ModeInv'
  BY <1>1 DEF ModeInv
<1>2. ASSUME NEW f \in Fixer, Gone(f)
      PROVE  \A g \in Fixer : mode'[g] \subseteq UNION UserMode
  BY <1>2 DEF Gone, ModeInv, TypeInv, TypeOK
<1>3. ASSUME NEW f \in Fixer,
             Start(f) \/ ReadAndPlan(f) \/ LeaveAlone(f) \/ StartBackup(f) \/ CopyBackup(f)
               \/ Finish(f) \/ PassOver(f) \/ ReplaceFails(f) \/ WriteFails(f) \/ Tidy(f)
      PROVE  ModeInv'
  BY <1>3 DEF Start, ReadAndPlan, LeaveAlone, StartBackup, CopyBackup, Finish, PassOver,
              ReplaceFails, WriteFails, Tidy, disk, ModeInv
<1>4. ASSUME NEW f \in Fixer, StampBackup(f) PROVE ModeInv'
  <2>1. Here(f) \in Path /\ mode' = [mode EXCEPT ![f] = config[Here(f)].mode]
    BY <1>4, HereIsPath DEF StampBackup, TypeInv
  <2>2. UNCHANGED <<config, tmp, saved>>
    BY <1>4 DEF StampBackup
  <2>3. QED
    BY <1>1, <2>1, <2>2 DEF ModeInv, TypeInv, TypeOK
<1>5. ASSUME NEW f \in Fixer, OpenTmp(f) PROVE ModeInv'
  <2>1. /\ Here(f) \in Path /\ UNCHANGED <<config, saved, mode>>
        /\ \A p \in Path : p # Here(f) => tmp'[p] = tmp[p]
    BY <1>5, HereIsPath DEF OpenTmp, TypeInv, TypeOK
  <2>2. tmp'[Here(f)].mode = IF tmp[Here(f)] = Absent THEN mode[f] \ Umask ELSE tmp[Here(f)].mode
    BY <1>5, <2>1 DEF OpenTmp, TypeInv, TypeOK
  <2>3. tmp'[Here(f)].mode \subseteq UNION UserMode
    BY <2>1, <2>2 DEF ModeInv
  <2>4. QED
    BY <2>1, <2>3 DEF ModeInv
<1>6. ASSUME NEW f \in Fixer, WriteTmp(f) PROVE ModeInv'
  <2>1. Here(f) \in Path /\ UNCHANGED <<saved, mode>>
    BY <1>6, HereIsPath DEF WriteTmp, TypeInv
  <2>2. /\ config[Here(f)] \in File /\ tmp[Here(f)] \in File \cup {Absent}
        /\ fd[f] = "tmp" => tmp[Here(f)] \in File
    BY <2>1 DEF TypeInv, TypeOK, SharedInv
  <2>3. CASE /\ UNCHANGED config /\ fd[f] = "tmp"
             /\ \E text \in Overwritten(tmp[Here(f)].data, plan[f]) :
                  tmp' = [tmp EXCEPT ![Here(f)].data = text]
    <3>1. PICK text : tmp' = [tmp EXCEPT ![Here(f)].data = text]
      BY <2>3
    <3>2. /\ tmp'[Here(f)].mode = tmp[Here(f)].mode
          /\ \A p \in Path : p # Here(f) => tmp'[p] = tmp[p]
      BY <2>1, <2>2, <2>3, <3>1 DEF File, TypeInv, TypeOK
    <3>3. QED
      BY <1>0, <2>1, <2>2, <2>3, <3>2 DEF ModeInv
  <2>4. CASE UNCHANGED tmp /\ \E text \in Overwritten(config[Here(f)].data, plan[f]) :
                                config' = [config EXCEPT ![Here(f)].data = text]
    <3>1. PICK text : config' = [config EXCEPT ![Here(f)].data = text]
      BY <2>4
    <3>2. /\ config'[Here(f)].mode = config[Here(f)].mode
          /\ \A p \in Path : p # Here(f) => config'[p] = config[p]
      BY <2>1, <2>2, <3>1 DEF File, TypeInv, TypeOK
    <3>3. QED
      BY <2>1, <2>4, <3>2 DEF ModeInv
  <2>5. CASE UNCHANGED <<config, tmp>>
    BY <2>1, <2>5 DEF ModeInv
  <2>6. QED
    BY <1>6, <2>3, <2>4, <2>5 DEF WriteTmp
<1>7. ASSUME NEW f \in Fixer, Replace(f) PROVE ModeInv'
  <2>1. Here(f) \in Path
    BY <1>7, HereIsPath DEF Replace, TypeInv
  <2>2. /\ tmp[Here(f)] # Absent /\ UNCHANGED <<saved, mode>>
        /\ config'[Here(f)] = tmp[Here(f)] /\ tmp'[Here(f)] = Absent
        /\ \A p \in Path : p # Here(f) => config'[p] = config[p] /\ tmp'[p] = tmp[p]
    BY <1>7, <2>1 DEF Replace, TypeInv, TypeOK
  <2>3. QED
    BY <2>1, <2>2 DEF ModeInv
<1>8. ASSUME NEW f \in Fixer, Exit(f) \/ Undo(f) \/ UnlinkTmp(f) \/ UnlinkFails(f) \/ Crash(f)
      PROVE  ModeInv'
  <2>1. /\ Gone(f) \/ UNCHANGED mode
        /\ UNCHANGED <<config, saved>>
        /\ \A p \in Path : tmp'[p] = tmp[p] \/ tmp'[p] = Absent
    BY <1>8 DEF Exit, Undo, UnlinkTmp, UnlinkFails, Crash, disk, TypeInv, TypeOK
  <2>2. \A g \in Fixer : mode'[g] \subseteq UNION UserMode
    BY <1>2, <2>1 DEF ModeInv
  <2>3. QED
    BY <2>1, <2>2 DEF ModeInv
<1>10. ASSUME NEW p \in Path, NEW file \in [data : Content, mode : UserMode], Save(p, file)
       PROVE  ModeInv'
  <2>1. /\ UNCHANGED <<tmp, mode>> /\ config'[p] = file /\ saved'[p] = file
        /\ \A q \in Path : q # p => config'[q] = config[q] /\ saved'[q] = saved[q]
    BY <1>10 DEF Save, TypeInv, TypeOK
  <2>2. file.mode \in UserMode
    OBVIOUS
  <2>3. QED
    BY <2>1, <2>2 DEF ModeInv
<1>11. CASE UNCHANGED vars
  BY <1>11 DEF vars, disk, proc, ModeInv
<1>12. QED
  BY <1>3, <1>4, <1>5, <1>6, <1>7, <1>8, <1>10, <1>11 DEF Next, Program

(* Whoever fixes, saves, fails and crashes: a config, or the temporary     *)
(* file that is going to be one, has no permission bit that users never    *)
(* give (apply_fix_to_file, fix.py:159-170).                               *)
THEOREM ModesAreBounded == Spec => []ModeInv
<1>1. Init => ModeInv
  BY FixAssumption DEF Init, ModeInv
<1>2. TypeInv /\ ModeInv /\ [Next]_vars => ModeInv'
  BY ModeStep
<1>3. QED
  BY <1>1, <1>2, FixTypeInvariant, PTL DEF Spec

(* "keeping the file's original permission bits": where users give their   *)
(* configs one mode, no number of fixers and crashes widens it.            *)
THEOREM FixKeepsTheMode ==
  ASSUME \A m, n \in UserMode : m = n
  PROVE  Spec => []ModeNeverWidened
<1>1. ModeInv => ModeNeverWidened
  <2> SUFFICES ASSUME ModeInv, NEW p \in Path PROVE config[p].mode \subseteq saved[p].mode
    BY DEF ModeNeverWidened
  <2>1. config[p].mode \subseteq UNION UserMode /\ saved[p].mode \in UserMode
    BY DEF ModeInv
  <2>2. UNION UserMode = saved[p].mode
    BY <2>1
  <2>3. QED
    BY <2>1, <2>2
<1>2. QED
  BY <1>1, ModesAreBounded, PTL

----------------------------------------------------------------------------
(* One fixer, and users who wait for it.                                   *)
Alone == ~ Racing /\ \A f, g \in Fixer : f = g

(* A config is what its user saved, or that without the unsafe grants and  *)
(* with the saved file in the backup.                                      *)
FileInv(p) ==
  /\ config[p].data = saved[p].data => config[p] = saved[p]
  /\ config[p].data # saved[p].data => /\ config[p].data = Pruned(saved[p].data)
                                       /\ backup[p] = saved[p]

(* What the fixer has achieved by the time it is at a step.                *)
FixerInv(f) ==
  /\ pc[f] \in Working => /\ Changes(config[Here(f)].data)
                          /\ plan[f] = Pruned(config[Here(f)].data)
  /\ pc[f] = "copy" => source[f] = config[Here(f)].data
  /\ pc[f] = "stamp" => backup[Here(f)].data = config[Here(f)].data
  /\ pc[f] \in {"open", "write", "replace"} => backup[Here(f)] = config[Here(f)]
  /\ pc[f] = "write" => fd[f] = "tmp" /\ tmp[Here(f)].data = Torn
  /\ pc[f] = "replace" => tmp[Here(f)] # Absent /\ tmp[Here(f)].data = plan[f]
  /\ pc[f] = "tidy" => tmp[Here(f)] = Absent
  /\ pc[f] # "unlink"

(* A config is clean, or the run passed it over.                           *)
Settled(f, p) == p \in passed[f] \/ config[p].data \intersect Unsafe = {}

(* The files behind the one it is at are settled, and so is the one it has *)
(* just replaced.                                                          *)
CleanInv(f) ==
  /\ \A i \in 1 .. Len(Order) : i < next[f] => Settled(f, Order[i])
  /\ pc[f] = "tidy" => Settled(f, Here(f))
  /\ pc[f] = "idle" => next[f] = 1
  /\ pc[f] = "done" => next[f] > Len(Order)

AloneInv ==
  /\ \A p \in Path : FileInv(p)
  /\ \A f \in Fixer : FixerInv(f) /\ CleanInv(f)

(* A config that has something to remove is what its user saved.           *)
LEMMA ChangesMeansSaved ==
  ASSUME TypeOK, NEW p \in Path, FileInv(p), Changes(config[p].data)
  PROVE  config[p] = saved[p]
<1>1. saved[p].data \in Content
  BY DEF TypeOK, File
<1> QED BY <1>1, PrunedContent DEF FileInv, Changes

(* The invariant of a lone fixer holds initially.                          *)
LEMMA AloneInit == Init => AloneInv
<1> SUFFICES ASSUME Init PROVE AloneInv
  OBVIOUS
<1>1. Len(Order) \in Nat
  BY FixAssumption
<1> QED BY <1>1 DEF Init, AloneInv, FileInv, FixerInv, CleanInv, Working

(* Every step of a lone fixer, and every save between its runs, keeps it.  *)
LEMMA AloneStep ==
  ASSUME Alone, TypeInv, AloneInv, [Next]_vars
  PROVE  AloneInv'
<1> USE DEF Working, Cleaning
<1>0. Len(Order) \in Nat /\ Absent \notin File
  BY FixAssumption
<1>1. \A f \in Fixer : /\ FixerInv(f) /\ CleanInv(f) /\ next[f] \in Nat
                       /\ pc[f] \in Working \union Cleaning => Here(f) \in Path
  BY <1>0, HereIsPath DEF AloneInv, TypeInv, TypeOK
<1>2. ASSUME NEW f \in Fixer, UNCHANGED <<disk, saved>>,
             FixerInv(f)' /\ CleanInv(f)'
      PROVE  AloneInv'
  BY <1>2 DEF Alone, AloneInv, FileInv, disk
<1>3. ASSUME NEW f \in Fixer, Start(f) PROVE AloneInv'
  <2>1. FixerInv(f)' /\ CleanInv(f)'
    BY <1>3, <1>1 DEF Start, GoTo, disk, FixerInv, CleanInv, Settled, TypeInv, TypeOK
  <2> QED BY <1>2, <1>3, <2>1 DEF Start
<1>4. ASSUME NEW f \in Fixer, ReadAndPlan(f) PROVE AloneInv'
  <2>1. FixerInv(f)' /\ CleanInv(f)'
    BY <1>4, <1>1 DEF ReadAndPlan, GoTo, disk, FixerInv, CleanInv, Settled, TypeInv, TypeOK, Here
  <2> QED BY <1>2, <1>4, <2>1 DEF ReadAndPlan
<1>5. ASSUME NEW f \in Fixer, LeaveAlone(f) PROVE AloneInv'
  <2>1. FixerInv(f)'
    BY <1>5, <1>1 DEF LeaveAlone, FixerInv, TypeInv, TypeOK
  <2>2. CleanInv(f)'
    <3>1. next' = [next EXCEPT ![f] = next[f] + 1] /\ next'[f] = next[f] + 1
      BY <1>5 DEF LeaveAlone, TypeInv, TypeOK
    <3>2. Settled(f, Order[next[f]])
      BY <1>5 DEF LeaveAlone, Here, Changes, Pruned, Settled
    <3>3. ASSUME NEW i \in 1 .. Len(Order), i < next'[f]
          PROVE  Settled(f, Order[i])
      <4>1. i < next[f] \/ i = next[f]
        BY <3>1, <3>3, <1>0, <1>1
      <4> QED BY <4>1, <3>2, <1>1 DEF CleanInv
    <3> QED BY <3>3, <1>5 DEF LeaveAlone, disk, CleanInv, Settled
  <2> QED BY <1>2, <1>5, <2>1, <2>2 DEF LeaveAlone
<1>15. ASSUME NEW f \in Fixer, PassOver(f) PROVE AloneInv'
  <2>1. FixerInv(f)'
    BY <1>15, <1>1 DEF PassOver, FixerInv, TypeInv, TypeOK
  <2>2. CleanInv(f)'
    <3>1. next'[f] = next[f] + 1 /\ passed'[f] = passed[f] \union {Order[next[f]]}
      BY <1>15 DEF PassOver, Here, TypeInv, TypeOK
    <3>2. ASSUME NEW i \in 1 .. Len(Order), i < next'[f]
          PROVE  Settled(f, Order[i])'
      <4>1. i < next[f] \/ i = next[f]
        BY <3>1, <3>2, <1>0, <1>1
      <4>2. CASE i < next[f]
        <5>1. Settled(f, Order[i])
          BY <4>2, <1>1 DEF CleanInv
        <5> QED BY <5>1, <3>1, <1>15 DEF PassOver, disk, Settled
      <4>3. CASE i = next[f]
        BY <4>3, <3>1 DEF Settled
      <4> QED BY <4>1, <4>2, <4>3
    <3> QED BY <3>2, <1>15 DEF PassOver, disk, CleanInv
  <2> QED BY <1>2, <1>15, <2>1, <2>2 DEF PassOver
<1>6. ASSUME NEW f \in Fixer, Gone(f), UNCHANGED <<config, backup, saved>> PROVE AloneInv'
  <2>1. pc'[f] = "idle" /\ next'[f] = 1
    BY <1>6 DEF Gone, GoTo, TypeInv, TypeOK
  <2>2. FixerInv(f)' /\ CleanInv(f)'
    BY <2>1, <1>0 DEF FixerInv, CleanInv
  <2>3. \A p \in Path : FileInv(p)'
    BY <1>6 DEF AloneInv, FileInv
  <2> QED BY <2>2, <2>3 DEF Alone, AloneInv
<1>16. ASSUME NEW f \in Fixer, Exit(f) \/ Crash(f) \/ UnlinkFails(f) PROVE AloneInv'
  BY <1>6, <1>16 DEF Exit, Crash, UnlinkFails, disk
<1>17. ASSUME NEW f \in Fixer, ReplaceFails(f) \/ WriteFails(f) PROVE AloneInv'
  <2>1. /\ pc[f] \in {"write", "replace"} /\ pc'[f] = "undo"
        /\ UNCHANGED <<disk, saved, next, passed>>
    BY <1>17 DEF ReplaceFails, WriteFails, GoTo, TypeInv, TypeOK
  <2>2. FixerInv(f)' /\ CleanInv(f)'
    BY <2>1, <1>1 DEF disk, FixerInv, CleanInv, Settled
  <2> QED BY <1>2, <2>1, <2>2
<1>18. ASSUME NEW f \in Fixer, Tidy(f) PROVE AloneInv'
  <2>1. /\ pc[f] = "tidy" /\ tmp[Here(f)] = Absent /\ Settled(f, Here(f))
    BY <1>18, <1>1 DEF Tidy, FixerInv, CleanInv
  <2>2. /\ pc'[f] = "read" /\ next'[f] = next[f] + 1
        /\ UNCHANGED <<disk, saved, passed>>
    BY <1>18, <2>1 DEF Tidy, GoTo, TypeInv, TypeOK
  <2>3. FixerInv(f)'
    BY <2>2 DEF FixerInv
  <2>4. \A p \in Path : Settled(f, p)' <=> Settled(f, p)
    BY <2>2 DEF Settled, disk
  <2>5. ASSUME NEW i \in 1 .. Len(Order), i < next'[f] PROVE Settled(f, Order[i])'
    <3>1. Settled(f, Order[i])
      <4>1. i < next[f] \/ i = next[f]
        BY <2>2, <2>5, <1>0, <1>1
      <4> QED BY <4>1, <2>1, <1>1 DEF CleanInv, Here
    <3> QED BY <3>1, <2>4, OrderedPath
  <2>6. CleanInv(f)'
    BY <2>2, <2>5 DEF CleanInv
  <2> QED BY <1>2, <2>2, <2>3, <2>6
<1>19. ASSUME NEW f \in Fixer, Undo(f) PROVE AloneInv'
  <2>1. CASE Gone(f)
    BY <1>6, <1>19, <2>1 DEF Undo, disk
  <2>2. CASE ~ Gone(f)
    <3>1. /\ pc'[f] = "discard" /\ UNCHANGED <<disk, saved, next, passed>>
      BY <1>19, <2>2 DEF Undo, GoTo, TypeInv, TypeOK
    <3>2. FixerInv(f)' /\ CleanInv(f)'
      BY <3>1, <1>1 DEF disk, FixerInv, CleanInv, Settled
    <3> QED BY <1>2, <3>1, <3>2
  <2> QED BY <2>1, <2>2
<1>20. ASSUME NEW f \in Fixer, UnlinkTmp(f) PROVE AloneInv'
  <2>1. Gone(f) /\ UNCHANGED <<config, backup, saved>>
    BY <1>20, <1>1 DEF UnlinkTmp, FixerInv
  <2> QED BY <1>6, <2>1
<1>7. ASSUME NEW f \in Fixer, Finish(f) PROVE AloneInv'
  <2>1. FixerInv(f)' /\ CleanInv(f)'
    BY <1>7, <1>1 DEF Finish, GoTo, disk, FixerInv, CleanInv, Settled, TypeInv, TypeOK
  <2> QED BY <1>2, <1>7, <2>1 DEF Finish
<1>8. ASSUME NEW f \in Fixer, StartBackup(f) \/ CopyBackup(f) \/ StampBackup(f)
      PROVE  AloneInv'
  <2>1. pc[f] \in Working /\ Here(f) \in Path /\ config[Here(f)] = saved[Here(f)]
    BY <1>8, <1>1, ChangesMeansSaved
       DEF StartBackup, CopyBackup, StampBackup, AloneInv, FixerInv, TypeInv
  <2>2. /\ UNCHANGED <<config, tmp, saved, next, plan, fd>>
        /\ \A p \in Path : p # Here(f) => backup'[p] = backup[p]
    BY <1>8 DEF StartBackup, CopyBackup, StampBackup, TypeInv, TypeOK
  <2>3. \A p \in Path : FileInv(p)'
    BY <2>1, <2>2 DEF AloneInv, FileInv
  <2>4. Here(f)' = Here(f)
    BY <2>2 DEF Here
  <2>5. CleanInv(f)'
    BY <1>8, <1>1, <2>2
       DEF StartBackup, CopyBackup, StampBackup, GoTo, CleanInv, Settled, TypeInv, TypeOK
  <2>6. backup[Here(f)] \in File \union {Absent} /\ config[Here(f)] \in File
    BY <2>1 DEF TypeInv, TypeOK
  <2>7. FixerInv(f)'
    <3>1. CASE StartBackup(f)
      <4>1. pc'[f] = "copy" /\ source'[f] = config[Here(f)].data
        BY <3>1 DEF StartBackup, GoTo, TypeInv, TypeOK
      <4> QED BY <4>1, <3>1, <1>1, <2>2, <2>4 DEF StartBackup, FixerInv
    <3>2. CASE CopyBackup(f)
      <4>1. pc[f] = "copy" /\ pc'[f] = "stamp"
        BY <3>2 DEF CopyBackup, GoTo, TypeInv, TypeOK
      <4>2. backup[Here(f)] \in File
        BY <4>1, <2>6 DEF TypeInv, SharedInv
      <4>3. backup'[Here(f)].data = config[Here(f)].data
        BY <3>2, <4>1, <4>2, <1>1, <2>1 DEF CopyBackup, FixerInv, TypeInv, TypeOK, File
      <4> QED BY <4>1, <4>3, <1>1, <2>2, <2>4 DEF FixerInv
    <3>3. CASE StampBackup(f)
      <4>1. pc[f] = "stamp" /\ pc'[f] = "open"
        BY <3>3 DEF StampBackup, GoTo, TypeInv, TypeOK
      <4>2. backup[Here(f)] \in File
        BY <4>1, <2>6 DEF TypeInv, SharedInv
      <4>3. backup[Here(f)].data = config[Here(f)].data
        BY <4>1, <1>1 DEF FixerInv
      <4>4. backup'[Here(f)] = [backup[Here(f)] EXCEPT !.mode = config[Here(f)].mode]
        BY <3>3, <2>1 DEF StampBackup, TypeInv, TypeOK
      <4>5. backup'[Here(f)] = config[Here(f)]
        BY <4>2, <4>3, <4>4, <2>6 DEF File
      <4> QED BY <4>1, <4>5, <1>1, <2>2, <2>4 DEF FixerInv
    <3> QED BY <1>8, <3>1, <3>2, <3>3
  <2> QED BY <2>3, <2>5, <2>7 DEF Alone, AloneInv
<1>9. ASSUME NEW f \in Fixer, OpenTmp(f) PROVE AloneInv'
  <2>1. Here(f) \in Path /\ pc[f] = "open" /\ pc'[f] = "write" /\ fd'[f] = "tmp"
    BY <1>9, <1>1 DEF OpenTmp, GoTo, TypeInv, TypeOK
  <2>2. UNCHANGED <<config, backup, saved, next, plan, source>> /\ Here(f)' = Here(f)
    BY <1>9 DEF OpenTmp, Here
  <2>3. tmp'[Here(f)].data = Torn
    BY <1>9, <2>1 DEF OpenTmp, TypeInv, TypeOK
  <2>4. \A p \in Path : FileInv(p)'
    BY <2>2 DEF AloneInv, FileInv
  <2>5. FixerInv(f)'
    BY <2>1, <2>2, <2>3, <1>1 DEF FixerInv
  <2>6. CleanInv(f)'
    BY <1>9, <2>1, <2>2, <1>1 DEF OpenTmp, CleanInv, Settled
  <2> QED BY <2>4, <2>5, <2>6 DEF Alone, AloneInv
<1>10. ASSUME NEW f \in Fixer, WriteTmp(f) PROVE AloneInv'
  <2>1. /\ Here(f) \in Path /\ pc[f] = "write" /\ pc'[f] = "replace"
        /\ fd[f] = "tmp" /\ tmp[Here(f)].data = Torn
    BY <1>10, <1>1 DEF WriteTmp, GoTo, FixerInv, TypeInv, TypeOK
  <2>2. UNCHANGED <<config, backup, saved, next, plan, source>> /\ Here(f)' = Here(f)
    BY <1>10, <2>1 DEF WriteTmp, Here
  <2>3. tmp[Here(f)] \in File
    BY <2>1 DEF TypeInv, TypeOK, SharedInv
  <2>4. tmp' = [tmp EXCEPT ![Here(f)].data = plan[f]]
    BY <1>10, <2>1 DEF WriteTmp, Overwritten
  <2>5. [tmp[Here(f)] EXCEPT !.data = plan[f]] \in File
    BY <2>3 DEF TypeInv, TypeOK, File
  <2>6. tmp'[Here(f)] # Absent /\ tmp'[Here(f)].data = plan[f]
    BY <2>1, <2>3, <2>4, <2>5, <1>0 DEF TypeInv, TypeOK, File
  <2>7. \A p \in Path : FileInv(p)'
    BY <2>2 DEF AloneInv, FileInv
  <2>8. FixerInv(f)'
    BY <2>1, <2>2, <2>6, <1>1 DEF FixerInv
  <2>9. CleanInv(f)'
    BY <1>10, <2>1, <2>2, <1>1 DEF WriteTmp, CleanInv, Settled
  <2> QED BY <2>7, <2>8, <2>9 DEF Alone, AloneInv
<1>11. ASSUME NEW f \in Fixer, Replace(f) PROVE AloneInv'
  <2>1. Here(f) \in Path /\ pc[f] = "replace" /\ pc'[f] = "tidy"
    BY <1>11, <1>1 DEF Replace, GoTo, TypeInv, TypeOK
  <2>2. config[Here(f)] = saved[Here(f)] /\ backup[Here(f)] = saved[Here(f)]
    BY <2>1, <1>1, ChangesMeansSaved DEF AloneInv, FixerInv, TypeInv
  <2>3. tmp[Here(f)].data = Pruned(config[Here(f)].data)
    BY <2>1, <1>1 DEF FixerInv
  <2>4. /\ config'[Here(f)] = tmp[Here(f)]
        /\ \A p \in Path : p # Here(f) => config'[p] = config[p]
        /\ UNCHANGED <<backup, saved>>
    BY <1>11, <2>1 DEF Replace, TypeInv, TypeOK
  <2>5. Changes(config[Here(f)].data)
    BY <2>1, <1>1 DEF FixerInv
  <2>6. \A p \in Path : FileInv(p)'
    <3>1. ASSUME NEW p \in Path, p = Here(f) PROVE FileInv(p)'
      BY <3>1, <2>2, <2>3, <2>4, <2>5 DEF FileInv, Changes
    <3>2. ASSUME NEW p \in Path, p # Here(f) PROVE FileInv(p)'
      BY <2>4, <3>2 DEF AloneInv, FileInv
    <3> QED BY <3>1, <3>2
  <2>7. /\ next'[f] = next[f] /\ passed'[f] = passed[f] /\ Here(f)' = Here(f)
        /\ tmp'[Here(f)] = Absent
    BY <1>11, <2>1 DEF Replace, Here, TypeInv, TypeOK
  <2>8. FixerInv(f)'
    BY <2>1, <2>7 DEF FixerInv
  <2>9. config'[Here(f)].data \intersect Unsafe = {}
    BY <2>3, <2>4 DEF Pruned
  <2>10. ASSUME NEW p \in Path, Settled(f, p) PROVE Settled(f, p)'
    BY <2>4, <2>7, <2>9, <2>10 DEF Settled
  <2>11. ASSUME NEW i \in 1 .. Len(Order), i < next'[f] PROVE Settled(f, Order[i])'
    BY <2>7, <2>10, <2>11, <1>1, OrderedPath DEF CleanInv
  <2>12. Settled(f, Here(f))'
    BY <2>7, <2>9 DEF Settled
  <2>13. CleanInv(f)'
    BY <2>1, <2>11, <2>12 DEF CleanInv
  <2> QED BY <2>6, <2>8, <2>13 DEF Alone, AloneInv
<1>13. ASSUME NEW p \in Path, NEW file \in [data : Content, mode : UserMode], Save(p, file)
       PROVE  AloneInv'
  <2>1. \A f \in Fixer : pc[f] = "idle" /\ pc'[f] = "idle" /\ next'[f] = 1
    BY <1>13, <1>1 DEF Save, Alone, CleanInv
  <2>2. \A f \in Fixer : FixerInv(f)' /\ CleanInv(f)'
    BY <2>1, <1>0 DEF FixerInv, CleanInv
  <2>3. \A q \in Path : FileInv(q)'
    BY <1>13 DEF Save, AloneInv, FileInv, TypeInv, TypeOK
  <2> QED BY <2>2, <2>3 DEF AloneInv
<1>14. CASE UNCHANGED vars
  BY <1>14 DEF vars, disk, proc, AloneInv, FileInv, FixerInv, CleanInv, Settled, Here
<1> QED
  BY <1>3, <1>4, <1>5, <1>7, <1>8, <1>9, <1>10, <1>11, <1>13, <1>14, <1>15, <1>16, <1>17,
     <1>18, <1>19, <1>20
     DEF Next, Program

(* A lone fixer keeps its invariant, through crashes and failing writes.   *)
THEOREM AloneInvariant ==
  ASSUME Alone
  PROVE  Spec => [](TypeInv /\ AloneInv)
<1>1. Init => TypeInv /\ AloneInv
  BY TypeInit, AloneInit
<1>2. TypeInv /\ AloneInv /\ [Next]_vars => (TypeInv /\ AloneInv)'
  BY TypeStep, AloneStep
<1> QED BY <1>1, <1>2, PTL DEF Spec

(* "written atomically": a config never holds half a text or a text of the *)
(* fixer's own making.                                                     *)
THEOREM FixIsAtomic ==
  ASSUME Alone
  PROVE  Spec => []NothingInvented
<1>1. AloneInv => NothingInvented
  BY DEF AloneInv, FileInv, NothingInvented, Pruned
<1> QED BY <1>1, AloneInvariant, PTL

(* "Reversible": what the user saved can always be restored.               *)
THEOREM FixIsReversible ==
  ASSUME Alone
  PROVE  Spec => []Reversible
<1>1. AloneInv => Reversible
  BY DEF AloneInv, FileInv, Reversible
<1> QED BY <1>1, AloneInvariant, PTL

(* A run that comes to its normal end leaves no flagged grant in any       *)
(* config it could read, and it tried to read them all (_apply_fixes).     *)
THEOREM FixCleansUp ==
  ASSUME Alone
  PROVE  Spec => []CleanWhenDone
<1>1. TypeInv /\ AloneInv => CleanWhenDone
  <2> SUFFICES ASSUME TypeInv, AloneInv, NEW f \in Fixer, pc[f] = "done",
                      NEW p \in Path \ passed[f]
               PROVE  config[p].data \intersect Unsafe = {}
    BY DEF CleanWhenDone
  <2>1. PICK i \in 1 .. Len(Order) : p = Order[i]
    BY DEF Path
  <2>2. next[f] > Len(Order) /\ next[f] \in 1 .. Len(Order) + 1 /\ Len(Order) \in Nat
    BY FixAssumption DEF AloneInv, CleanInv, TypeInv, TypeOK
  <2>3. i < next[f]
    BY <2>1, <2>2
  <2> QED BY <2>1, <2>3 DEF AloneInv, CleanInv, Settled
<1> QED BY <1>1, AloneInvariant, PTL

----------------------------------------------------------------------------
(* The lone fixer implements AtomicFix.                                    *)

(* Both specifications mean the same by contents and pruning.              *)
LEMMA SameContent == Atomic!Content = Content /\ \A text : Atomic!Pruned(text) = Pruned(text)
BY DEF Atomic!Content, Atomic!Torn, Atomic!Pruned, Content, Torn, Pruned

(* The first configs are the abstract ones.                                *)
LEMMA RefinesInit == Init => Atomic!Init
<1> SUFFICES ASSUME Init PROVE Atomic!Init
  OBVIOUS
<1>1. Restorable = [p \in Path |-> config[p].data]
  BY DEF Init, Restorable
<1>2. [p \in Path |-> config[p].data] \in [Path -> Content]
  BY DEF Init
<1> QED BY <1>1, <1>2, SameContent DEF Atomic!Init

(* A save is an abstract save, a rename an abstract fix, and every other   *)
(* step changes nothing a user could see.                                  *)
LEMMA RefinesStep ==
  ASSUME Alone, TypeInv, AloneInv, AloneInv', [Next]_vars
  PROVE  [Atomic!Next]_Atomic!vars
<1> DEFINE Data == [p \in Path |-> config[p].data]
<1>1. Restorable = [p \in Path |-> saved[p].data]
  <2>1. ASSUME NEW p \in Path, config[p].data # saved[p].data
        PROVE  backup[p] # Absent /\ backup[p].data = saved[p].data
    <3>1. backup[p] = saved[p] /\ saved[p] \in File
      BY <2>1 DEF AloneInv, FileInv, TypeInv, TypeOK
    <3> QED BY <3>1, FixAssumption
  <2> QED BY <2>1 DEF Restorable
<1>2. Restorable' = [p \in Path |-> saved'[p].data]
  <2>0. TypeOK'
    BY TypeStep DEF TypeInv
  <2>1. ASSUME NEW p \in Path, config'[p].data # saved'[p].data
        PROVE  backup'[p] # Absent /\ backup'[p].data = saved'[p].data
    <3>1. backup'[p] = saved'[p] /\ saved'[p] \in File
      BY <2>0, <2>1 DEF AloneInv, FileInv, TypeOK
    <3> QED BY <3>1, FixAssumption
  <2> QED BY <2>1 DEF Restorable
<1>3. CASE UNCHANGED <<config, saved>>
  BY <1>1, <1>2, <1>3 DEF Atomic!vars
<1>4. ASSUME NEW p \in Path, NEW file \in [data : Content, mode : UserMode], Save(p, file)
      PROVE  Atomic!Next
  <2>1. config' = [config EXCEPT ![p] = file] /\ saved' = [saved EXCEPT ![p] = file]
    BY <1>4 DEF Save
  <2>2. Data' = [Data EXCEPT ![p] = file.data]
    BY <2>1 DEF TypeInv, TypeOK
  <2>3. Restorable' = [Restorable EXCEPT ![p] = file.data]
    BY <1>1, <1>2, <2>1 DEF TypeInv, TypeOK
  <2>4. file.data \in Content
    OBVIOUS
  <2> QED BY <2>2, <2>3, <2>4, SameContent DEF Atomic!Next, Atomic!Save
<1>5. ASSUME NEW f \in Fixer, Replace(f) PROVE Atomic!Next
  <2>1. Here(f) \in Path
    BY <1>5, HereIsPath DEF Replace, TypeInv, Working, Cleaning
  <2>2. /\ tmp[Here(f)].data = Pruned(config[Here(f)].data)
        /\ Changes(config[Here(f)].data)
    BY <1>5 DEF Replace, AloneInv, FixerInv, Working
  <2>3. config[Here(f)] = saved[Here(f)]
    BY <2>1, <2>2, ChangesMeansSaved DEF AloneInv, TypeInv
  <2>4. config' = [config EXCEPT ![Here(f)] = tmp[Here(f)]] /\ saved' = saved
    BY <1>5 DEF Replace
  <2>5. Data' = [Data EXCEPT ![Here(f)] = Pruned(Restorable[Here(f)])]
    BY <1>1, <2>1, <2>2, <2>3, <2>4 DEF TypeInv, TypeOK
  <2>6. Restorable' = Restorable
    BY <1>1, <1>2, <2>4
  <2> QED BY <2>1, <2>5, <2>6, SameContent DEF Atomic!Next, Atomic!Fix
<1>6. ASSUME NEW f \in Fixer, WriteTmp(f) PROVE UNCHANGED <<config, saved>>
  BY <1>6 DEF WriteTmp, AloneInv, FixerInv
<1> QED
  BY <1>3, <1>4, <1>5, <1>6
     DEF Next, Program, Start, ReadAndPlan, LeaveAlone, StartBackup, CopyBackup, StampBackup,
         OpenTmp, PassOver, ReplaceFails, WriteFails, Tidy, Undo, UnlinkTmp, UnlinkFails, Finish,
         Exit, Crash, vars, disk, proc

(* "fixed" is one step: the lone fixer, crashes and all, implements the    *)
(* abstract fixer.                                                         *)
THEOREM FixRefines ==
  ASSUME Alone
  PROVE  Spec => ImplementsAtomicFix
<1>1. (TypeInv /\ AloneInv) /\ (TypeInv /\ AloneInv)' /\ [Next]_vars
        => [Atomic!Next]_Atomic!vars
  BY RefinesStep
<1> QED
  BY <1>1, RefinesInit, AloneInvariant, PTL DEF Spec, Atomic!Spec, ImplementsAtomicFix
=============================================================================
