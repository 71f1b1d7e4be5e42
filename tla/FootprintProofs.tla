-------------------------- MODULE FootprintProofs --------------------------
(* What a daemon leaves outside its process, and who may take it away: the
   files of its launches (HookFiles, for any number of daemons, launches and
   pids) and the mapping and grant of its tunnel (ServeTunnel, for any number
   of the operator's edits and uses of --off).

   The files.  The invariant says who may still own an entry a sweep has in
   hand.  A name stamped with a pid was given by the launch's own daemon, which
   either still serves, so that the pid probes alive and is not the sweeper's,
   or has died, which no later holder of the pid undoes.  A hook's temporary
   that has aged belongs to a worker that is gone and does not come back.     *)
EXTENDS HookFiles, ServeTunnel, TLAPS

Young == {"none", "writing", "launching"}

Entries == files \cup UNION {listing[p] : p \in Pids}

\* A launch was made by a daemon, and until that dies it serves.
DaemonServes ==
  \A t \in Launches : launch[t] # "none" =>
    /\ owner[t] \in Pids
    /\ launch[t] # "lost" => process[owner[t]] = "serving"

\* The stamp of an entry names the daemon of its launch.
StampIsOwner ==
  \A f \in Entries : f.class = "owned" => f.pid = owner[f.token] /\ launch[f.token] # "none"

\* A hook's temporary is being written, or its worker has ended for good.
HookTempIsWritten ==
  \A t \in Launches :
    /\ t \in worker => launch[t] \notin Young
    /\ launch[t] \in Young => HookTemp(t) \notin files
    /\ HookTemp(t) \in files /\ t \notin hooking => t \notin worker
    /\ HookTemp(t) \in aged => t \notin worker /\ launch[t] \notin Young

\* What a sweep is about to unlink is an orphan, or no longer there.
DoomedIsOrphan ==
  \A p \in Pids : \A f \in doomed[p] :
    /\ f.class = "owned" => launch[f.token] = "lost"
    /\ f.class # "owned" => (f \in files => f \in aged)
    /\ f.class = "hook-temp" => f.token \notin worker /\ launch[f.token] \notin Young

Inv == TypeOK /\ DaemonServes /\ StampIsOwner /\ HookTempIsWritten /\ DoomedIsOrphan /\ InstallStands

Roles == {"settings", "settings.tmp", "handoff"}

\* The three forms of a name, and what each of them says.
LEMMA StampedNames ==
  ASSUME NEW p \in Pids, NEW t \in Launches, NEW role \in Roles
  PROVE  /\ Owned(p, t, role) \in File
         /\ Owned(p, t, role).class = "owned"
         /\ Owned(p, t, role).pid = p
         /\ Owned(p, t, role).token = t
         /\ Owned(p, t, role).role = role
  BY DEF File, Owned, Roles

LEMMA HookTempNames ==
  ASSUME NEW t \in Launches
  PROVE  /\ HookTemp(t) \in File
         /\ HookTemp(t).class = "hook-temp"
         /\ HookTemp(t).token = t
  BY DEF File, HookTemp

LEMMA FileForms ==
  ASSUME NEW f \in File
  PROVE  \/ f.class = "owned" /\ f.pid \in Pids /\ f.token \in Launches
         \/ f.class = "hook-temp" /\ f.token \in Launches /\ f = HookTemp(f.token)
         \/ f.class = "legacy"
<1>1. CASE f \in {Owned(p, t, role) : p \in Pids, t \in Launches, role \in Roles}
  BY <1>1 DEF Owned
<1>2. CASE f \in {HookTemp(t) : t \in Launches}
  BY <1>2 DEF HookTemp
<1>3. CASE f = Legacy
  BY <1>3 DEF Legacy
<1>4. QED
  BY <1>1, <1>2, <1>3 DEF File, Roles

LEMMA InitInv == Init => Inv
<1> SUFFICES ASSUME Init PROVE Inv
  OBVIOUS
<1> USE DEF Init
<1>1. TypeOK
  BY DEF TypeOK, File
<1>2. Entries = {Legacy} /\ Legacy.class = "legacy"
  BY DEF Entries, Legacy
<1>3. StampIsOwner
  BY <1>2 DEF StampIsOwner
<1>4. HookTempIsWritten
  BY DEF HookTempIsWritten, Young, HookTemp, Legacy
<1>5. DaemonServes /\ DoomedIsOrphan /\ InstallStands
  BY DEF DaemonServes, DoomedIsOrphan, InstallStands
<1>6. QED
  BY <1>1, <1>3, <1>4, <1>5 DEF Inv

\* Types, step by step.
LEMMA TypeOKStep ==
  ASSUME TypeOK, DaemonServes, HookTempIsWritten, [Next]_vars
  PROVE  TypeOK'
<1>1. CASE UNCHANGED vars
  BY <1>1 DEF vars, TypeOK
<1>2. ASSUME NEW p \in Pids, Start(p) PROVE TypeOK'
  BY <1>2 DEF Start, TypeOK
<1>3. ASSUME NEW p \in Pids, Unlink(p) PROVE TypeOK'
  BY <1>3 DEF Unlink, TypeOK
<1>4. ASSUME NEW p \in Pids, Listen(p) PROVE TypeOK'
  BY <1>4 DEF Listen, Swept, TypeOK
<1>5. ASSUME NEW p \in Pids, Dies(p) PROVE TypeOK'
  BY <1>5 DEF Dies, TypeOK
<1>6. ASSUME NEW p \in Pids, Stranger(p) PROVE TypeOK'
  BY <1>6 DEF Stranger, TypeOK
<1>7. ASSUME NEW p \in Pids, NEW f \in File, Visit(p, f) PROVE TypeOK'
  BY <1>7 DEF Visit, TypeOK
<1>8. ASSUME NEW p \in Pids, NEW t \in Launches, WriteSettings(p, t) PROVE TypeOK'
  BY <1>8, StampedNames DEF WriteSettings, TypeOK, Roles
<1>9. ASSUME NEW t \in Launches, RenameSettings(t) PROVE TypeOK'
  BY <1>9, StampedNames DEF RenameSettings, TypeOK, DaemonServes, Roles, Mine
<1>10. ASSUME NEW t \in Launches, InstallFails(t) PROVE TypeOK'
  BY <1>10 DEF InstallFails, TypeOK
<1>11. ASSUME NEW t \in Launches, LaunchSucceeds(t) PROVE TypeOK'
  BY <1>11 DEF LaunchSucceeds, TypeOK
<1>12. ASSUME NEW t \in Launches, LaunchFails(t) PROVE TypeOK'
  BY <1>12 DEF LaunchFails, TypeOK, Cleanup
<1>13. ASSUME NEW t \in Launches, Close(t) PROVE TypeOK'
  BY <1>13 DEF Close, TypeOK, Cleanup
<1>14. ASSUME NEW t \in Launches, Evict(t) PROVE TypeOK'
  BY <1>14 DEF Evict, TypeOK
<1>15. ASSUME NEW t \in Launches, Consume(t) PROVE TypeOK'
  BY <1>15 DEF Consume, TypeOK
<1>16. ASSUME NEW t \in Launches, HookWrites(t) PROVE TypeOK'
  BY <1>16, HookTempNames DEF HookWrites, TypeOK
<1>17. ASSUME NEW t \in Launches, HookRenames(t) PROVE TypeOK'
  BY <1>17, StampedNames
     DEF HookRenames, TypeOK, DaemonServes, HookTempIsWritten, Young, Roles, Mine
<1>18. ASSUME NEW t \in Launches, WorkerEnds(t) PROVE TypeOK'
  BY <1>18 DEF WorkerEnds, TypeOK
<1>19. ASSUME NEW f \in File, Ages(f) PROVE TypeOK'
  BY <1>19 DEF Ages, TypeOK
<1>20. QED
  BY <1>1, <1>2, <1>3, <1>4, <1>5, <1>6, <1>7, <1>8, <1>9, <1>10, <1>11, <1>12, <1>13, <1>14,
     <1>15, <1>16, <1>17, <1>18, <1>19 DEF Next

\* Only its death takes a daemon out of service.
LEMMA DaemonServesStep ==
  ASSUME TypeOK, DaemonServes, [Next]_vars
  PROVE  DaemonServes'
<1>1. CASE UNCHANGED vars
  BY <1>1 DEF vars, TypeOK, DaemonServes
<1>2. ASSUME NEW p \in Pids, Start(p) PROVE DaemonServes'
  BY <1>2 DEF Start, TypeOK, DaemonServes
<1>3. ASSUME NEW p \in Pids, Unlink(p) PROVE DaemonServes'
  BY <1>3 DEF Unlink, TypeOK, DaemonServes
<1>4. ASSUME NEW p \in Pids, Listen(p) PROVE DaemonServes'
  BY <1>4 DEF Listen, Swept, TypeOK, DaemonServes
<1>5. ASSUME NEW p \in Pids, Dies(p) PROVE DaemonServes'
  BY <1>5 DEF Dies, TypeOK, DaemonServes
<1>6. ASSUME NEW p \in Pids, Stranger(p) PROVE DaemonServes'
  BY <1>6 DEF Stranger, TypeOK, DaemonServes
<1>7. ASSUME NEW p \in Pids, NEW f \in File, Visit(p, f) PROVE DaemonServes'
  BY <1>7 DEF Visit, TypeOK, DaemonServes
<1>8. ASSUME NEW p \in Pids, NEW t \in Launches, WriteSettings(p, t) PROVE DaemonServes'
  BY <1>8 DEF WriteSettings, TypeOK, DaemonServes
<1>9. ASSUME NEW t \in Launches, RenameSettings(t) PROVE DaemonServes'
  BY <1>9 DEF RenameSettings, TypeOK, DaemonServes
<1>10. ASSUME NEW t \in Launches, InstallFails(t) PROVE DaemonServes'
  BY <1>10 DEF InstallFails, TypeOK, DaemonServes
<1>11. ASSUME NEW t \in Launches, LaunchSucceeds(t) PROVE DaemonServes'
  BY <1>11 DEF LaunchSucceeds, TypeOK, DaemonServes
<1>12. ASSUME NEW t \in Launches, LaunchFails(t) PROVE DaemonServes'
  BY <1>12 DEF LaunchFails, TypeOK, DaemonServes, Cleanup
<1>13. ASSUME NEW t \in Launches, Close(t) PROVE DaemonServes'
  BY <1>13 DEF Close, TypeOK, DaemonServes, Cleanup
<1>14. ASSUME NEW t \in Launches, Evict(t) PROVE DaemonServes'
  BY <1>14 DEF Evict, TypeOK, DaemonServes
<1>15. ASSUME NEW t \in Launches, Consume(t) PROVE DaemonServes'
  BY <1>15 DEF Consume, TypeOK, DaemonServes
<1>16. ASSUME NEW t \in Launches, HookWrites(t) PROVE DaemonServes'
  BY <1>16 DEF HookWrites, TypeOK, DaemonServes
<1>17. ASSUME NEW t \in Launches, HookRenames(t) PROVE DaemonServes'
  BY <1>17 DEF HookRenames, TypeOK, DaemonServes
<1>18. ASSUME NEW t \in Launches, WorkerEnds(t) PROVE DaemonServes'
  BY <1>18 DEF WorkerEnds, TypeOK, DaemonServes
<1>19. ASSUME NEW f \in File, Ages(f) PROVE DaemonServes'
  BY <1>19 DEF Ages, TypeOK, DaemonServes
<1>20. QED
  BY <1>1, <1>2, <1>3, <1>4, <1>5, <1>6, <1>7, <1>8, <1>9, <1>10, <1>11, <1>12, <1>13, <1>14,
     <1>15, <1>16, <1>17, <1>18, <1>19 DEF Next

\* A stamp is written by the launch it names, which keeps its owner.
LEMMA StampIsOwnerStep ==
  ASSUME TypeOK, DaemonServes, HookTempIsWritten, StampIsOwner, [Next]_vars
  PROVE  StampIsOwner'
<1>1. CASE UNCHANGED vars
  BY <1>1 DEF vars, StampIsOwner, Entries, TypeOK
<1>2. ASSUME NEW p \in Pids, Start(p) PROVE StampIsOwner'
  BY <1>2 DEF Start, StampIsOwner, Entries, TypeOK
<1>3. ASSUME NEW p \in Pids, Unlink(p) PROVE StampIsOwner'
  BY <1>3 DEF Unlink, StampIsOwner, Entries, TypeOK
<1>4. ASSUME NEW p \in Pids, Listen(p) PROVE StampIsOwner'
  BY <1>4 DEF Listen, Swept, StampIsOwner, Entries, TypeOK
<1>5. ASSUME NEW p \in Pids, Dies(p) PROVE StampIsOwner'
  BY <1>5, FileForms DEF Dies, StampIsOwner, Entries, TypeOK
<1>6. ASSUME NEW p \in Pids, Stranger(p) PROVE StampIsOwner'
  BY <1>6 DEF Stranger, StampIsOwner, Entries, TypeOK
<1>7. ASSUME NEW p \in Pids, NEW f \in File, Visit(p, f) PROVE StampIsOwner'
  BY <1>7 DEF Visit, StampIsOwner, Entries, TypeOK
<1>8. ASSUME NEW p \in Pids, NEW t \in Launches, WriteSettings(p, t) PROVE StampIsOwner'
  BY <1>8, StampedNames DEF WriteSettings, StampIsOwner, Entries, TypeOK, Roles
<1>9. ASSUME NEW t \in Launches, RenameSettings(t) PROVE StampIsOwner'
  BY <1>9, StampedNames, FileForms
     DEF RenameSettings, StampIsOwner, Entries, TypeOK, DaemonServes, Roles, Mine
<1>10. ASSUME NEW t \in Launches, InstallFails(t) PROVE StampIsOwner'
  BY <1>10 DEF InstallFails, StampIsOwner, Entries, TypeOK
<1>11. ASSUME NEW t \in Launches, LaunchSucceeds(t) PROVE StampIsOwner'
  BY <1>11 DEF LaunchSucceeds, StampIsOwner, Entries, TypeOK
<1>12. ASSUME NEW t \in Launches, LaunchFails(t) PROVE StampIsOwner'
  BY <1>12 DEF LaunchFails, StampIsOwner, Entries, TypeOK, Cleanup
<1>13. ASSUME NEW t \in Launches, Close(t) PROVE StampIsOwner'
  BY <1>13 DEF Close, StampIsOwner, Entries, TypeOK, Cleanup
<1>14. ASSUME NEW t \in Launches, Evict(t) PROVE StampIsOwner'
  BY <1>14 DEF Evict, StampIsOwner, Entries, TypeOK
<1>15. ASSUME NEW t \in Launches, Consume(t) PROVE StampIsOwner'
  BY <1>15 DEF Consume, StampIsOwner, Entries, TypeOK
<1>16. ASSUME NEW t \in Launches, HookWrites(t) PROVE StampIsOwner'
  BY <1>16, HookTempNames DEF HookWrites, StampIsOwner, Entries, TypeOK
<1>17. ASSUME NEW t \in Launches, HookRenames(t) PROVE StampIsOwner'
  BY <1>17, StampedNames, HookTempNames, FileForms
     DEF HookRenames, StampIsOwner, Entries, TypeOK, DaemonServes, HookTempIsWritten, Young, Roles,
     Mine
<1>18. ASSUME NEW t \in Launches, WorkerEnds(t) PROVE StampIsOwner'
  BY <1>18 DEF WorkerEnds, StampIsOwner, Entries, TypeOK
<1>19. ASSUME NEW f \in File, Ages(f) PROVE StampIsOwner'
  BY <1>19 DEF Ages, StampIsOwner, Entries, TypeOK
<1>20. QED
  BY <1>1, <1>2, <1>3, <1>4, <1>5, <1>6, <1>7, <1>8, <1>9, <1>10, <1>11, <1>12, <1>13, <1>14,
     <1>15, <1>16, <1>17, <1>18, <1>19 DEF Next

\* A temporary outlives its write only if the worker has ended.
LEMMA HookTempIsWrittenStep ==
  ASSUME TypeOK, DaemonServes, HookTempIsWritten, [Next]_vars
  PROVE  HookTempIsWritten'
<1>1. CASE UNCHANGED vars
  BY <1>1 DEF vars, HookTempIsWritten, Young, TypeOK
<1>2. ASSUME NEW p \in Pids, Start(p) PROVE HookTempIsWritten'
  BY <1>2 DEF Start, HookTempIsWritten, Young, TypeOK
<1>3. ASSUME NEW p \in Pids, Unlink(p) PROVE HookTempIsWritten'
  BY <1>3 DEF Unlink, HookTempIsWritten, Young, TypeOK
<1>4. ASSUME NEW p \in Pids, Listen(p) PROVE HookTempIsWritten'
  BY <1>4 DEF Listen, Swept, HookTempIsWritten, Young, TypeOK
<1>5. ASSUME NEW p \in Pids, Dies(p) PROVE HookTempIsWritten'
  BY <1>5 DEF Dies, HookTempIsWritten, Young, TypeOK
<1>6. ASSUME NEW p \in Pids, Stranger(p) PROVE HookTempIsWritten'
  BY <1>6 DEF Stranger, HookTempIsWritten, Young, TypeOK
<1>7. ASSUME NEW p \in Pids, NEW f \in File, Visit(p, f) PROVE HookTempIsWritten'
  BY <1>7 DEF Visit, HookTempIsWritten, Young, TypeOK
<1>8. ASSUME NEW p \in Pids, NEW t \in Launches, WriteSettings(p, t) PROVE HookTempIsWritten'
  BY <1>8, StampedNames, HookTempNames, SMTT(40)
     DEF WriteSettings, HookTempIsWritten, Young, TypeOK, DaemonServes, Roles, Mine
<1>9. ASSUME NEW t \in Launches, RenameSettings(t) PROVE HookTempIsWritten'
  BY <1>9, StampedNames, HookTempNames, SMTT(40)
     DEF RenameSettings, HookTempIsWritten, Young, TypeOK, DaemonServes, Roles, Mine
<1>10. ASSUME NEW t \in Launches, InstallFails(t) PROVE HookTempIsWritten'
  BY <1>10 DEF InstallFails, HookTempIsWritten, Young, TypeOK
<1>11. ASSUME NEW t \in Launches, LaunchSucceeds(t) PROVE HookTempIsWritten'
  BY <1>11 DEF LaunchSucceeds, HookTempIsWritten, Young, TypeOK
<1>12. ASSUME NEW t \in Launches, LaunchFails(t) PROVE HookTempIsWritten'
  BY <1>12 DEF LaunchFails, HookTempIsWritten, Young, TypeOK, Cleanup
<1>13. ASSUME NEW t \in Launches, Close(t) PROVE HookTempIsWritten'
  BY <1>13 DEF Close, HookTempIsWritten, Young, TypeOK, Cleanup
<1>14. ASSUME NEW t \in Launches, Evict(t) PROVE HookTempIsWritten'
  BY <1>14 DEF Evict, HookTempIsWritten, Young, TypeOK
<1>15. ASSUME NEW t \in Launches, Consume(t) PROVE HookTempIsWritten'
  BY <1>15 DEF Consume, HookTempIsWritten, Young, TypeOK
<1>16. ASSUME NEW t \in Launches, HookWrites(t) PROVE HookTempIsWritten'
  BY <1>16, HookTempNames DEF HookWrites, HookTempIsWritten, Young, TypeOK
<1>17. ASSUME NEW t \in Launches, HookRenames(t) PROVE HookTempIsWritten'
  BY <1>17, StampedNames, HookTempNames
     DEF HookRenames, HookTempIsWritten, Young, TypeOK, DaemonServes, Roles, Mine
<1>18. ASSUME NEW t \in Launches, WorkerEnds(t) PROVE HookTempIsWritten'
  BY <1>18 DEF WorkerEnds, HookTempIsWritten, Young, TypeOK
<1>19. ASSUME NEW f \in File, Ages(f) PROVE HookTempIsWritten'
  BY <1>19, HookTempNames DEF Ages, HookTempIsWritten, Young, TypeOK, Legacy
<1>20. QED
  BY <1>1, <1>2, <1>3, <1>4, <1>5, <1>6, <1>7, <1>8, <1>9, <1>10, <1>11, <1>12, <1>13, <1>14,
     <1>15, <1>16, <1>17, <1>18, <1>19 DEF Next

\* An entry that was judged an orphan stays one until it goes.
LEMMA DoomedIsOrphanStep ==
  ASSUME TypeOK, DaemonServes, StampIsOwner, HookTempIsWritten, DoomedIsOrphan, [Next]_vars
  PROVE  DoomedIsOrphan'
<1>1. CASE UNCHANGED vars
  BY <1>1 DEF vars, DoomedIsOrphan, Young, TypeOK
<1>2. ASSUME NEW p \in Pids, Start(p) PROVE DoomedIsOrphan'
  BY <1>2 DEF Start, DoomedIsOrphan, Young, TypeOK
<1>3. ASSUME NEW p \in Pids, Unlink(p) PROVE DoomedIsOrphan'
  BY <1>3 DEF Unlink, DoomedIsOrphan, Young, TypeOK
<1>4. ASSUME NEW p \in Pids, Listen(p) PROVE DoomedIsOrphan'
  BY <1>4 DEF Listen, Swept, DoomedIsOrphan, Young, TypeOK
<1>5. ASSUME NEW p \in Pids, Dies(p) PROVE DoomedIsOrphan'
  BY <1>5, FileForms DEF Dies, DoomedIsOrphan, Young, TypeOK
<1>6. ASSUME NEW p \in Pids, Stranger(p) PROVE DoomedIsOrphan'
  BY <1>6 DEF Stranger, DoomedIsOrphan, Young, TypeOK
<1>7. ASSUME NEW p \in Pids, NEW f \in File, Visit(p, f) PROVE DoomedIsOrphan'
  BY <1>7, FileForms
     DEF Visit, DoomedIsOrphan, Young, TypeOK, ShouldReap, Classify, IsAlive, DaemonServes,
     StampIsOwner, Entries, HookTempIsWritten
<1>8. ASSUME NEW p \in Pids, NEW t \in Launches, WriteSettings(p, t) PROVE DoomedIsOrphan'
  BY <1>8, StampedNames, HookTempNames, FileForms
     DEF WriteSettings, DoomedIsOrphan, Young, TypeOK, DaemonServes, StampIsOwner, Entries,
     HookTempIsWritten, Roles, Mine
<1>9. ASSUME NEW t \in Launches, RenameSettings(t) PROVE DoomedIsOrphan'
  BY <1>9, StampedNames, HookTempNames, FileForms
     DEF RenameSettings, DoomedIsOrphan, Young, TypeOK, DaemonServes, StampIsOwner, Entries,
     HookTempIsWritten, Roles, Mine
<1>10. ASSUME NEW t \in Launches, InstallFails(t) PROVE DoomedIsOrphan'
  BY <1>10 DEF InstallFails, DoomedIsOrphan, Young, TypeOK
<1>11. ASSUME NEW t \in Launches, LaunchSucceeds(t) PROVE DoomedIsOrphan'
  BY <1>11 DEF LaunchSucceeds, DoomedIsOrphan, Young, TypeOK
<1>12. ASSUME NEW t \in Launches, LaunchFails(t) PROVE DoomedIsOrphan'
  BY <1>12 DEF LaunchFails, DoomedIsOrphan, Young, TypeOK, Cleanup
<1>13. ASSUME NEW t \in Launches, Close(t) PROVE DoomedIsOrphan'
  BY <1>13 DEF Close, DoomedIsOrphan, Young, TypeOK, Cleanup
<1>14. ASSUME NEW t \in Launches, Evict(t) PROVE DoomedIsOrphan'
  BY <1>14 DEF Evict, DoomedIsOrphan, Young, TypeOK
<1>15. ASSUME NEW t \in Launches, Consume(t) PROVE DoomedIsOrphan'
  BY <1>15 DEF Consume, DoomedIsOrphan, Young, TypeOK
<1>16. ASSUME NEW t \in Launches, HookWrites(t) PROVE DoomedIsOrphan'
  BY <1>16, HookTempNames, FileForms DEF HookWrites, DoomedIsOrphan, Young, TypeOK
<1>17. ASSUME NEW t \in Launches, HookRenames(t) PROVE DoomedIsOrphan'
  BY <1>17, StampedNames, HookTempNames, FileForms
     DEF HookRenames, DoomedIsOrphan, Young, TypeOK, DaemonServes, StampIsOwner, Entries,
     HookTempIsWritten, Roles, Mine
<1>18. ASSUME NEW t \in Launches, WorkerEnds(t) PROVE DoomedIsOrphan'
  BY <1>18 DEF WorkerEnds, DoomedIsOrphan, Young, TypeOK
<1>19. ASSUME NEW f \in File, Ages(f) PROVE DoomedIsOrphan'
  BY <1>19 DEF Ages, DoomedIsOrphan, Young, TypeOK
<1>20. QED
  BY <1>1, <1>2, <1>3, <1>4, <1>5, <1>6, <1>7, <1>8, <1>9, <1>10, <1>11, <1>12, <1>13, <1>14,
     <1>15, <1>16, <1>17, <1>18, <1>19 DEF Next

\* The settings of a launch go with its session, or with its daemon.
LEMMA InstallStandsStep ==
  ASSUME TypeOK, DaemonServes, DoomedIsOrphan, InstallStands, [Next]_vars
  PROVE  InstallStands'
<1>1. CASE UNCHANGED vars
  BY <1>1 DEF vars, InstallStands, Mine, TypeOK
<1>2. ASSUME NEW p \in Pids, Start(p) PROVE InstallStands'
  BY <1>2 DEF Start, InstallStands, Mine, TypeOK
<1>3. ASSUME NEW p \in Pids, Unlink(p) PROVE InstallStands'
  <2>1. \A t \in Launches, role \in Roles : launch[t] \notin {"none", "lost"} => Mine(t,
     role) \notin doomed[p]
    BY StampedNames DEF DaemonServes, DoomedIsOrphan, Mine
  <2>2. QED
    BY <1>3, <2>1 DEF Unlink, InstallStands, Mine, Roles
<1>4. ASSUME NEW p \in Pids, Listen(p) PROVE InstallStands'
  BY <1>4 DEF Listen, Swept, InstallStands, Mine, TypeOK
<1>5. ASSUME NEW p \in Pids, Dies(p) PROVE InstallStands'
  BY <1>5 DEF Dies, InstallStands, Mine, TypeOK
<1>6. ASSUME NEW p \in Pids, Stranger(p) PROVE InstallStands'
  BY <1>6 DEF Stranger, InstallStands, Mine, TypeOK
<1>7. ASSUME NEW p \in Pids, NEW f \in File, Visit(p, f) PROVE InstallStands'
  BY <1>7 DEF Visit, InstallStands, Mine, TypeOK
<1>8. ASSUME NEW p \in Pids, NEW t \in Launches, WriteSettings(p, t) PROVE InstallStands'
  BY <1>8, StampedNames, HookTempNames
     DEF WriteSettings, InstallStands, Mine, TypeOK, DaemonServes, Roles
<1>9. ASSUME NEW t \in Launches, RenameSettings(t) PROVE InstallStands'
  <2>1. \A u \in Launches : launch[u] \notin {"none", "lost"} /\ u # t =>
          \A role \in Roles : Mine(u, role) # Mine(t, "settings.tmp")
    BY <1>9, StampedNames DEF RenameSettings, DaemonServes, Mine, Roles
  <2>2. Mine(t, "settings") # Mine(t, "settings.tmp")
    BY <1>9, StampedNames DEF RenameSettings, DaemonServes, Mine, Roles
  <2>3. QED
    BY <1>9, <2>1, <2>2 DEF RenameSettings, InstallStands, Mine, TypeOK, Roles
<1>10. ASSUME NEW t \in Launches, InstallFails(t) PROVE InstallStands'
  BY <1>10 DEF InstallFails, InstallStands, Mine, TypeOK
<1>11. ASSUME NEW t \in Launches, LaunchSucceeds(t) PROVE InstallStands'
  BY <1>11 DEF LaunchSucceeds, InstallStands, Mine, TypeOK
<1>12. ASSUME NEW t \in Launches, LaunchFails(t) PROVE InstallStands'
  BY <1>12, StampedNames, HookTempNames
     DEF LaunchFails, InstallStands, Mine, TypeOK, DaemonServes, Roles, Cleanup
<1>13. ASSUME NEW t \in Launches, Close(t) PROVE InstallStands'
  BY <1>13, StampedNames, HookTempNames
     DEF Close, InstallStands, Mine, TypeOK, DaemonServes, Roles, Cleanup
<1>14. ASSUME NEW t \in Launches, Evict(t) PROVE InstallStands'
  BY <1>14 DEF Evict, InstallStands, Mine, TypeOK
<1>15. ASSUME NEW t \in Launches, Consume(t) PROVE InstallStands'
  BY <1>15, StampedNames, HookTempNames, SMTT(40)
     DEF Consume, InstallStands, Mine, TypeOK, DaemonServes, Roles
<1>16. ASSUME NEW t \in Launches, HookWrites(t) PROVE InstallStands'
  BY <1>16 DEF HookWrites, InstallStands, Mine, TypeOK
<1>17. ASSUME NEW t \in Launches, HookRenames(t) PROVE InstallStands'
  BY <1>17, StampedNames, HookTempNames
     DEF HookRenames, InstallStands, Mine, TypeOK, DaemonServes, Roles
<1>18. ASSUME NEW t \in Launches, WorkerEnds(t) PROVE InstallStands'
  BY <1>18 DEF WorkerEnds, InstallStands, Mine, TypeOK
<1>19. ASSUME NEW f \in File, Ages(f) PROVE InstallStands'
  BY <1>19 DEF Ages, InstallStands, Mine, TypeOK
<1>20. QED
  BY <1>1, <1>2, <1>3, <1>4, <1>5, <1>6, <1>7, <1>8, <1>9, <1>10, <1>11, <1>12, <1>13, <1>14,
     <1>15, <1>16, <1>17, <1>18, <1>19 DEF Next

-----------------------------------------------------------------------------
LEMMA NextInv == Inv /\ [Next]_vars => Inv'
  BY TypeOKStep, DaemonServesStep, StampIsOwnerStep, HookTempIsWrittenStep,
     DoomedIsOrphanStep, InstallStandsStep DEF Inv

\* Who may still need an entry is known at every moment of every sweep.
THEOREM Invariant == Spec => []Inv
<1>1. Init => Inv
  BY InitInv
<1>2. Inv /\ [Next]_vars => Inv'
  BY NextInv
<1>3. QED
  BY <1>1, <1>2, PTL DEF Spec

\* Every file of the hook's directory is one a daemon or a hook of the model wrote,
\* and every variable stays of its type, for any number of pids and launches.
THEOREM TypeCorrect == Spec => []TypeOK
  BY Invariant, PTL DEF Inv

\* However many daemons start, sweep and die beside it, under its own pid's past
\* or another's, a launch and its session keep the settings they were given.
THEOREM InstallStandsAlways == Spec => []InstallStands
  BY Invariant, PTL DEF Inv

\* A sweep takes nothing that a living daemon or a hook still needs: not the
\* settings of a launch under way, not a captured question, not a hook's write.
THEOREM SweepTakesOnlyOrphansAlways == Spec => SweepTakesOnlyOrphans
<1>1. ASSUME Inv PROVE \A p \in Pids : Unlink(p) => \A f \in files \ files' : IsOrphan(f)
  <2> SUFFICES ASSUME NEW p \in Pids, Unlink(p), NEW f \in files \ files'
               PROVE  IsOrphan(f)
    OBVIOUS
  <2>1. f \in doomed[p] /\ f \in files /\ f \in File
    BY <1>1 DEF Unlink, Inv, TypeOK
  <2>2. CASE f.class = "owned"
    BY <1>1, <2>1, <2>2 DEF Inv, DoomedIsOrphan, IsOrphan
  <2>3. CASE f.class = "hook-temp"
    BY <1>1, <2>1, <2>3 DEF Inv, DoomedIsOrphan, IsOrphan, TypeOK
  <2>4. CASE f.class = "legacy"
    BY <1>1, <2>1, <2>4 DEF Inv, DoomedIsOrphan, IsOrphan
  <2>5. QED
    BY <2>1, <2>2, <2>3, <2>4, FileForms
<1>2. QED
  BY <1>1, Invariant, PTL DEF Spec, SweepTakesOnlyOrphans

-----------------------------------------------------------------------------
(* The tunnel.  The invariant counts the grant: beside what the operator has
   made, the policy holds at most one, and while the daemon runs, what the
   adapter remembers of it says exactly whether it is there.  What it forgets
   when an answer is lost is why a failed establish and --off are excepted.   *)

Policies == [version : Nat, ours : Nat, edits : Nat, key : BOOLEAN]

FlagsTyped ==
  /\ mapping \in BOOLEAN /\ servedLocal \in BOOLEAN
  /\ provisionedGrant \in BOOLEAN /\ createdGrantsKey \in BOOLEAN

PoliciesTyped ==
  /\ policy \in Policies /\ fetched \in Policies
  /\ wanted \in Policies /\ wanted.ours \in {0, 1}

StagesTyped ==
  /\ establish \in {"serve", "status", "fetch", "save", "up", "failed"}
  /\ release \in {"none", "fetch", "save", "off", "done", "failed"}
  /\ releaser \in {"none", "serve", "shutdown", "off"}
  /\ server \in {"listening", "closing", "closed"}
  /\ serve \in {"running", "closing", "thrown"}
  /\ shutdown \in {"none", "closing", "waiting", "releasing", "ended"}
  /\ code \in {0, 1} /\ exit \in {"running", "clean", "failed"} /\ offs \in Nat

TunnelTyped == FlagsTyped /\ PoliciesTyped /\ StagesTyped

\* A policy of the same version as the one read is the one read; a grant is written
\* only over a policy without one, and reverted only in a policy with one.
ReadEarlier ==
  /\ fetched.version <= policy.version
  /\ fetched.version = policy.version => fetched = policy
  /\ Running /\ establish = "save" => fetched.ours = 0
  /\ release = "save" => fetched.ours > 0

\* One teardown at a time: serve's after a failed establish, the shutdown's of a
\* tunnel that is up, or that of --off after the daemon.
OneReleaser ==
  /\ (releaser = "none") <=> (release = "none")
  /\ releaser = "serve" /\ Running => establish = "failed"
  /\ releaser = "off" => ~Running /\ offs > 0
  /\ Running /\ releaser = "shutdown" => establish = "up" /\ shutdown \in {"releasing", "ended"}
  /\ shutdown = "releasing" => releaser # "none" /\ (Running => releaser = "shutdown")
  /\ Running /\ shutdown = "ended" /\ code = 0 /\ establish # "failed" =>
       releaser = "shutdown" /\ release = "done"

\* The policy against the one the operator has made.
GrantIsCounted ==
  /\ policy.edits = wanted.edits
  /\ policy.ours <= wanted.ours + 1
  /\ offs = 0 => policy.ours >= wanted.ours
  /\ wanted.ours = 1 => wanted.key
  /\ ~Provisioning => /\ policy.ours = wanted.ours /\ ~provisionedGrant
                      /\ establish \notin {"fetch", "save"} /\ release \notin {"fetch", "save"}

\* The policy against what the adapter of a running daemon remembers.
GrantIsRemembered ==
  Running =>
    /\ offs = 0
    /\ ~provisionedGrant /\ establish # "failed" => policy.ours = wanted.ours /\ (policy.key <=> wanted.key)
    /\ provisionedGrant => establish = "up"
    /\ provisionedGrant /\ release \in {"none", "fetch", "save"} =>
         /\ policy.ours = wanted.ours + 1 /\ policy.key
         /\ wanted.ours = 0 => (createdGrantsKey <=> ~wanted.key)
    /\ release \in {"fetch", "save"} => provisionedGrant
    /\ release \in {"off", "done"} => ~provisionedGrant

MappingIsTracked ==
  /\ Running => (mapping <=> servedLocal)
  /\ Running /\ release = "done" => ~mapping

\* --off claims the mapping, and is past the grant only when ours is gone.
OffClears ==
  releaser = "off" =>
    /\ release # "done" => servedLocal
    /\ release \in {"off", "done"} => policy.ours <= wanted.ours
    /\ release = "done" => ~mapping

TunnelInv ==
  /\ TunnelTyped /\ ReadEarlier /\ OneReleaser /\ GrantIsCounted /\ GrantIsRemembered
  /\ MappingIsTracked /\ OffClears /\ CleanExitLeavesNothing

LEMMA TunnelInitInv == TunnelInit => TunnelInv
<1> SUFFICES ASSUME TunnelInit PROVE TunnelInv
  OBVIOUS
<1> USE TunnelAssumption DEF TunnelInit
<1>1. PICK ours \in {0, 1}, key \in BOOLEAN :
        (ours = 1 => key) /\ policy = [version |-> 0, ours |-> ours, edits |-> 0, key |-> key]
  OBVIOUS
<1>2. /\ policy \in Policies
      /\ policy.version = 0 /\ policy.ours = ours /\ policy.key = key
  BY <1>1 DEF Policies
<1>3. TunnelTyped
  BY <1>2 DEF TunnelTyped, FlagsTyped, PoliciesTyped, StagesTyped
<1> QED BY <1>1, <1>2, <1>3 DEF TunnelInv, ReadEarlier, OneReleaser, GrantIsCounted, GrantIsRemembered, MappingIsTracked, OffClears,
       CleanExitLeavesNothing, Running

\* A write that lands has the policy it was made from under it.
LEMMA Writes ==
  ASSUME TunnelTyped, ReadEarlier, NEW next \in Policies, next.version = fetched.version
  PROVE  /\ Accepted(next) \in Policies
         /\ \/ ~Lands(next) /\ Accepted(next) = policy
            \/ /\ Lands(next) /\ fetched = policy
               /\ Accepted(next).version = policy.version + 1 /\ Accepted(next).ours = next.ours
               /\ Accepted(next).edits = next.edits /\ Accepted(next).key = next.key
BY DEF TunnelTyped, FlagsTyped, PoliciesTyped, StagesTyped, ReadEarlier, Policies, Accepted, Lands

\* The two writes of the adapter: either lands on the policy it read, or changes nothing.
LEMMA GrantWritten ==
  ASSUME TunnelTyped, ReadEarlier
  PROVE  /\ Accepted(Granted) \in Policies
         /\ \/ ~Lands(Granted) /\ Accepted(Granted) = policy
            \/ /\ Lands(Granted) /\ fetched = policy
               /\ Accepted(Granted).version = policy.version + 1 /\ Accepted(Granted).ours = policy.ours + 1
               /\ Accepted(Granted).edits = policy.edits /\ Accepted(Granted).key
<1> DEFINE more == [fetched EXCEPT !.ours = @ + 1]
<1>1. /\ more \in Policies /\ more.version = fetched.version /\ more.ours = fetched.ours + 1
      /\ more.edits = fetched.edits
  BY DEF TunnelTyped, FlagsTyped, PoliciesTyped, StagesTyped, Policies
<1>2. Granted = [more EXCEPT !.key = TRUE]
  BY DEF Granted
<1> HIDE DEF more
<1>3. /\ Granted \in Policies
      /\ Granted.version = fetched.version /\ Granted.ours = fetched.ours + 1
      /\ Granted.edits = fetched.edits /\ Granted.key
  BY <1>1, <1>2 DEF Policies
<1> QED BY <1>3, Writes

LEMMA GrantReverted ==
  ASSUME TunnelTyped, ReadEarlier, fetched.ours > 0
  PROVE  /\ Accepted(Reverted) \in Policies
         /\ \/ ~Lands(Reverted) /\ Accepted(Reverted) = policy
            \/ /\ Lands(Reverted) /\ fetched = policy
               /\ Accepted(Reverted).version = policy.version + 1 /\ Accepted(Reverted).ours = policy.ours - 1
               /\ Accepted(Reverted).edits = policy.edits
               /\ (Accepted(Reverted).key <=> policy.key /\ ~(createdGrantsKey /\ policy.ours = 1))
<1> DEFINE less == [fetched EXCEPT !.ours = @ - 1]
<1>1. /\ less \in Policies /\ less.version = fetched.version /\ less.ours = fetched.ours - 1
      /\ less.edits = fetched.edits /\ less.key = fetched.key
  BY DEF TunnelTyped, FlagsTyped, PoliciesTyped, StagesTyped, Policies
<1>2. Reverted = [less EXCEPT !.key = IF createdGrantsKey /\ fetched.ours = 1 THEN FALSE ELSE @]
  BY DEF Reverted
<1> HIDE DEF less
<1>3. /\ Reverted \in Policies
      /\ Reverted.version = fetched.version /\ Reverted.ours = fetched.ours - 1
      /\ Reverted.edits = fetched.edits
      /\ Reverted.key <=> fetched.key /\ ~(createdGrantsKey /\ fetched.ours = 1)
  BY <1>1, <1>2 DEF Policies
<1> QED BY <1>3, Writes

\* The operator's steps move the policy and the one they have made alike.
LEMMA OperatorKeeps ==
  ASSUME TunnelInv, OperatorEdits \/ OperatorGrants
  PROVE  TunnelInv'
<1> USE DEF TunnelInv
<1>1. /\ policy' \in Policies /\ wanted' \in Policies /\ wanted'.ours \in {0, 1}
      /\ policy'.version = policy.version + 1
      /\ \/ /\ policy'.edits = policy.edits + 1 /\ wanted'.edits = wanted.edits + 1
            /\ policy'.ours = policy.ours /\ wanted'.ours = wanted.ours
            /\ policy'.key = policy.key /\ wanted'.key = wanted.key
         \/ /\ policy'.edits = policy.edits /\ wanted'.edits = wanted.edits
            /\ wanted.ours = 0 /\ policy'.ours = policy.ours + 1 /\ wanted'.ours = 1
            /\ policy'.key = TRUE /\ wanted'.key = TRUE
  <2>1. CASE OperatorEdits
    <3> DEFINE later == [policy EXCEPT !.version = @ + 1]
    <3>1. /\ later \in Policies /\ later.version = policy.version + 1
          /\ later.ours = policy.ours /\ later.edits = policy.edits /\ later.key = policy.key
      BY DEF TunnelTyped, FlagsTyped, PoliciesTyped, StagesTyped, Policies
    <3>2. policy' = [later EXCEPT !.edits = @ + 1] /\ wanted' = [wanted EXCEPT !.edits = @ + 1]
      BY <2>1 DEF OperatorEdits
    <3> HIDE DEF later
    <3> QED BY <3>1, <3>2 DEF TunnelTyped, FlagsTyped, PoliciesTyped, StagesTyped, Policies
  <2>2. CASE OperatorGrants
    <3> DEFINE later == [policy EXCEPT !.version = @ + 1]
               more == [later EXCEPT !.ours = @ + 1]
               granted == [wanted EXCEPT !.ours = 1]
    <3>1. /\ later \in Policies /\ later.version = policy.version + 1
          /\ later.ours = policy.ours /\ later.edits = policy.edits
      BY DEF TunnelTyped, FlagsTyped, PoliciesTyped, StagesTyped, Policies
    <3>2. /\ more \in Policies /\ more.version = policy.version + 1
          /\ more.ours = policy.ours + 1 /\ more.edits = policy.edits
      <4> HIDE DEF later
      <4> QED BY <3>1 DEF Policies
    <3>3. granted \in Policies /\ granted.ours = 1 /\ granted.edits = wanted.edits
      BY DEF TunnelTyped, FlagsTyped, PoliciesTyped, StagesTyped, Policies
    <3>4. policy' = [more EXCEPT !.key = TRUE] /\ wanted' = [granted EXCEPT !.key = TRUE] /\ wanted.ours = 0
      BY <2>2 DEF OperatorGrants
    <3> HIDE DEF more, granted
    <3> QED BY <3>2, <3>3, <3>4 DEF Policies
  <2> QED BY <2>1, <2>2
<1>2. UNCHANGED <<mapping, adapter, establish, release, releaser, daemon>>
  BY DEF OperatorEdits, OperatorGrants
<1>3. policy \in Policies /\ wanted \in Policies /\ wanted.ours \in {0, 1} /\ fetched \in Policies
  BY DEF TunnelTyped, FlagsTyped, PoliciesTyped, StagesTyped
<1>4. TunnelTyped'
  <2>1. FlagsTyped'
    BY <1>1, <1>2 DEF TunnelTyped, FlagsTyped, PoliciesTyped, StagesTyped, adapter, daemon
  <2>2. PoliciesTyped'
    BY <1>1, <1>2 DEF TunnelTyped, FlagsTyped, PoliciesTyped, StagesTyped, adapter, daemon
  <2>3. StagesTyped'
    BY <1>1, <1>2 DEF TunnelTyped, FlagsTyped, PoliciesTyped, StagesTyped, adapter, daemon
  <2> QED BY <2>1, <2>2, <2>3 DEF TunnelTyped, FlagsTyped, PoliciesTyped, StagesTyped
<1>5. ReadEarlier'
  BY <1>1, <1>2, <1>3 DEF ReadEarlier, Policies, Running, adapter, daemon
<1>6. GrantIsCounted' /\ GrantIsRemembered'
  <2>1. GrantIsCounted'
    BY <1>1, <1>2, <1>3 DEF GrantIsCounted, GrantIsRemembered, Policies, Running, adapter, daemon
  <2>2. GrantIsRemembered'
    BY <1>1, <1>2, <1>3 DEF GrantIsCounted, GrantIsRemembered, Policies, Running, adapter, daemon
  <2> QED BY <2>1, <2>2
<1>7. OneReleaser' /\ MappingIsTracked'
  BY <1>2 DEF OneReleaser, MappingIsTracked, Running, adapter, daemon
<1>8. OffClears' /\ CleanExitLeavesNothing'
  BY <1>1, <1>2, <1>3 DEF OffClears, CleanExitLeavesNothing, Policies, adapter, daemon
<1> QED BY <1>4, <1>5, <1>6, <1>7, <1>8

\* A grant that lands unanswered leaves a failed establish.
LEMMA EstablishSaveKeeps ==
  ASSUME TunnelInv, NEW lands \in BOOLEAN, NEW answered \in BOOLEAN, EstablishSave(lands, answered)
  PROVE  TunnelInv'
<1> USE DEF TunnelInv
<1>1. UNCHANGED <<mapping, wanted, fetched, daemon, servedLocal>> /\ Running /\ establish = "save"
  BY DEF EstablishSave
<1>2. /\ policy' \in Policies
      /\ \/ ~lands /\ policy' = policy
         \/ /\ lands /\ fetched = policy /\ policy'.version = policy.version + 1
            /\ policy'.ours = policy.ours + 1 /\ policy'.edits = policy.edits /\ policy'.key = TRUE
  BY GrantWritten DEF EstablishSave, TunnelTyped, FlagsTyped, PoliciesTyped, StagesTyped
<1>3. \/ /\ lands /\ provisionedGrant' = TRUE /\ createdGrantsKey' = ~fetched.key
         /\ establish' = "up" /\ UNCHANGED <<release, releaser>>
      \/ /\ UNCHANGED <<provisionedGrant, createdGrantsKey>>
         /\ establish' = "failed" /\ releaser' = "serve"
         /\ release' \in {"off", "done"} /\ (release' = "off" <=> servedLocal)
  BY <1>1 DEF EstablishSave, EstablishFails
<1>4. policy \in Policies /\ wanted \in Policies /\ wanted.ours \in {0, 1} /\ fetched \in Policies
  BY DEF TunnelTyped, FlagsTyped, PoliciesTyped, StagesTyped
<1>5. TunnelTyped'
  <2>1. FlagsTyped'
    BY <1>1, <1>2, <1>3, <1>4 DEF TunnelTyped, FlagsTyped, PoliciesTyped, StagesTyped, Policies, daemon
  <2>2. PoliciesTyped'
    BY <1>1, <1>2, <1>3, <1>4 DEF TunnelTyped, FlagsTyped, PoliciesTyped, StagesTyped, Policies, daemon
  <2>3. StagesTyped'
    BY <1>1, <1>2, <1>3, <1>4 DEF TunnelTyped, FlagsTyped, PoliciesTyped, StagesTyped, Policies, daemon
  <2> QED BY <2>1, <2>2, <2>3 DEF TunnelTyped, FlagsTyped, PoliciesTyped, StagesTyped
<1>6. ReadEarlier'
  BY <1>1, <1>2, <1>3, <1>4 DEF ReadEarlier, Policies, Running, daemon
<1>7. OneReleaser'
  BY <1>1, <1>3 DEF OneReleaser, Running, daemon, TunnelTyped, FlagsTyped, PoliciesTyped, StagesTyped
<1>8. GrantIsCounted' /\ GrantIsRemembered'
  <2>1. GrantIsCounted'
    BY <1>1, <1>2, <1>3, <1>4 DEF GrantIsCounted, GrantIsRemembered, ReadEarlier, OneReleaser, Policies, Running, daemon, TunnelTyped, FlagsTyped, PoliciesTyped, StagesTyped
  <2>2. GrantIsRemembered'
    BY <1>1, <1>2, <1>3, <1>4 DEF GrantIsCounted, GrantIsRemembered, ReadEarlier, OneReleaser, Policies, Running, daemon, TunnelTyped, FlagsTyped, PoliciesTyped, StagesTyped
  <2> QED BY <2>1, <2>2
<1>9. MappingIsTracked' /\ OffClears' /\ CleanExitLeavesNothing'
  BY <1>1, <1>3 DEF MappingIsTracked, OneReleaser, OffClears, CleanExitLeavesNothing, Running, daemon, TunnelTyped, FlagsTyped, PoliciesTyped, StagesTyped
<1> QED BY <1>5, <1>6, <1>7, <1>8, <1>9

\* A revert takes away the one grant beside the operator's.
LEMMA TeardownSaveKeeps ==
  ASSUME TunnelInv, NEW lands \in BOOLEAN, NEW answered \in BOOLEAN, TeardownSave(lands, answered)
  PROVE  TunnelInv'
<1> USE DEF TunnelInv
<1>1. UNCHANGED <<mapping, wanted, servedLocal, fetched, establish, releaser, daemon>> /\ Releasing /\ release = "save"
  BY DEF TeardownSave
<1>2. /\ policy' \in Policies
      /\ \/ ~lands /\ policy' = policy
         \/ /\ lands /\ fetched = policy /\ policy.ours > 0 /\ policy'.version = policy.version + 1
            /\ policy'.ours = policy.ours - 1 /\ policy'.edits = policy.edits
            /\ (policy'.key <=> policy.key /\ ~(createdGrantsKey /\ policy.ours = 1))
  BY GrantReverted DEF TeardownSave, TunnelTyped, FlagsTyped, PoliciesTyped, StagesTyped, ReadEarlier
<1>3. \/ /\ lands /\ provisionedGrant' = FALSE /\ createdGrantsKey' = FALSE
         /\ release' \in {"off", "done"} /\ (release' = "off" <=> servedLocal)
      \/ release' = "failed" /\ UNCHANGED <<provisionedGrant, createdGrantsKey>>
  BY <1>1 DEF TeardownSave, AfterRevert
<1>4. policy \in Policies /\ wanted \in Policies /\ wanted.ours \in {0, 1} /\ fetched \in Policies
  BY DEF TunnelTyped, FlagsTyped, PoliciesTyped, StagesTyped
<1>5. TunnelTyped'
  <2>1. FlagsTyped'
    BY <1>1, <1>2, <1>3 DEF TunnelTyped, FlagsTyped, PoliciesTyped, StagesTyped, daemon
  <2>2. PoliciesTyped'
    BY <1>1, <1>2, <1>3 DEF TunnelTyped, FlagsTyped, PoliciesTyped, StagesTyped, daemon
  <2>3. StagesTyped'
    BY <1>1, <1>2, <1>3 DEF TunnelTyped, FlagsTyped, PoliciesTyped, StagesTyped, daemon
  <2> QED BY <2>1, <2>2, <2>3 DEF TunnelTyped, FlagsTyped, PoliciesTyped, StagesTyped
<1>6. ReadEarlier'
  BY <1>1, <1>2, <1>3, <1>4 DEF ReadEarlier, Policies, Running, daemon
<1>7. OneReleaser'
  BY <1>1, <1>3 DEF OneReleaser, Running, daemon, TunnelTyped, FlagsTyped, PoliciesTyped, StagesTyped
<1>8. GrantIsCounted' /\ GrantIsRemembered'
  <2>1. GrantIsCounted'
    BY <1>1, <1>2, <1>3, <1>4 DEF GrantIsCounted, GrantIsRemembered, Releasing, Policies, Running, daemon, TunnelTyped, FlagsTyped, PoliciesTyped, StagesTyped, OneReleaser
  <2>2. GrantIsRemembered'
    <3> SUFFICES ASSUME Running PROVE GrantIsRemembered'
      BY <1>1 DEF GrantIsRemembered, Running, daemon
    <3>1. /\ offs = 0 /\ establish = "up" /\ policy.ours = wanted.ours + 1 /\ policy.key
          /\ wanted.ours = 0 => (createdGrantsKey <=> ~wanted.key)
          /\ wanted.ours = 1 => wanted.key
      BY <1>1 DEF GrantIsRemembered, GrantIsCounted
    <3>2. CASE release' = "failed"
      BY <1>1, <1>3, <3>1, <3>2 DEF GrantIsRemembered, GrantIsCounted, daemon
    <3>3. CASE release' # "failed"
      <4>1. /\ ~provisionedGrant' /\ release' \in {"off", "done"} /\ policy'.ours = policy.ours - 1
            /\ policy'.key <=> policy.key /\ ~(createdGrantsKey /\ policy.ours = 1)
        BY <1>2, <1>3, <3>3
      <4>2. policy'.ours = wanted.ours /\ (policy'.key <=> wanted.key)
        BY <1>4, <3>1, <4>1 DEF Policies
      <4> QED BY <1>1, <3>1, <4>1, <4>2 DEF GrantIsRemembered, daemon
    <3> QED BY <3>2, <3>3
  <2> QED BY <2>1, <2>2
<1>9. MappingIsTracked' /\ CleanExitLeavesNothing'
  BY <1>1, <1>3 DEF MappingIsTracked, OneReleaser, CleanExitLeavesNothing, Running, Releasing, daemon, TunnelTyped, FlagsTyped, PoliciesTyped, StagesTyped, OffClears
<1>10. OffClears'
  BY <1>1, <1>2, <1>3, <1>4 DEF OffClears, GrantIsCounted, GrantIsRemembered, Policies
<1> QED BY <1>5, <1>6, <1>7, <1>8, <1>9, <1>10

\* Where the process ends between two steps, the write under way may have landed.
LEMMA ExitKeeps ==
  ASSUME TunnelInv, ShutdownExits \/ SecondSignal \/ ThrownExits
  PROVE  TunnelInv'
<1> USE DEF TunnelInv
<1>1. Running /\ exit' \in {"clean", "failed"} /\ UNCHANGED <<wanted, adapter, establish, release, releaser, shutdown, code, offs, server, serve>>
  BY DEF ShutdownExits, SecondSignal, ThrownExits, Exits
<1>2. exit' = "clean" => shutdown = "ended" /\ code = 0
  BY DEF ShutdownExits, SecondSignal, ThrownExits, Exits
<1>3. /\ policy' \in Policies /\ policy'.edits = policy.edits /\ mapping' \in BOOLEAN
      /\ \/ policy' = policy
         \/ /\ establish = "save" /\ policy'.version > policy.version /\ policy'.ours = policy.ours + 1
         \/ /\ release = "save" /\ policy'.version > policy.version
            /\ policy'.ours = policy.ours - 1
  <2>1. policy' = policy \/ (establish = "save" /\ policy' = Accepted(Granted))
          \/ (release = "save" /\ policy' = Accepted(Reverted))
    BY DEF ShutdownExits, SecondSignal, ThrownExits, Exits
  <2>2. mapping' = mapping \/ mapping' = TRUE \/ mapping' = FALSE
    BY DEF ShutdownExits, SecondSignal, ThrownExits, Exits
  <2>3. policy \in Policies /\ mapping \in BOOLEAN /\ (release = "save" => fetched.ours > 0)
    BY DEF TunnelTyped, FlagsTyped, PoliciesTyped, ReadEarlier
  <2>4. mapping' \in BOOLEAN
    BY <2>2, <2>3
  <2>5. CASE policy' = policy
    BY <2>3, <2>4, <2>5
  <2>6. CASE establish = "save" /\ policy' = Accepted(Granted)
    <3> HIDE DEF Policies
    <3>1. policy.version \in Nat /\ policy.ours \in Nat
      BY <2>3 DEF Policies
    <3> QED BY <2>3, <2>4, <2>6, <3>1, GrantWritten
  <2>7. CASE release = "save" /\ policy' = Accepted(Reverted)
    <3>1. policy.version \in Nat /\ policy.ours \in Nat
      BY <2>3 DEF Policies
    <3> QED BY <2>3, <2>4, <2>7, <3>1, GrantReverted
  <2> QED BY <2>1, <2>5, <2>6, <2>7
<1>11. exit' = "clean" /\ establish # "failed" => UNCHANGED <<mapping, policy>> /\ establish = "up" /\ releaser = "shutdown" /\ release = "done"
  BY <1>1, <1>2 DEF ShutdownExits, SecondSignal, ThrownExits, Exits, OneReleaser, Running
<1>4. policy \in Policies /\ wanted \in Policies /\ wanted.ours \in {0, 1} /\ fetched \in Policies
  BY DEF TunnelTyped, FlagsTyped, PoliciesTyped, StagesTyped
<1>5. ~Running' /\ releaser # "off"
  BY <1>1 DEF OneReleaser, Running
<1>6. TunnelTyped'
  <2>1. FlagsTyped'
    BY <1>1, <1>3 DEF TunnelTyped, FlagsTyped, PoliciesTyped, StagesTyped, adapter
  <2>2. PoliciesTyped'
    BY <1>1, <1>3 DEF TunnelTyped, FlagsTyped, PoliciesTyped, StagesTyped, adapter
  <2>3. StagesTyped'
    BY <1>1, <1>3 DEF TunnelTyped, FlagsTyped, PoliciesTyped, StagesTyped, adapter
  <2> QED BY <2>1, <2>2, <2>3 DEF TunnelTyped, FlagsTyped, PoliciesTyped, StagesTyped
<1>7. ReadEarlier'
  BY <1>1, <1>3, <1>4, <1>5 DEF ReadEarlier, Policies, adapter
<1>8. OneReleaser' /\ MappingIsTracked' /\ OffClears'
  BY <1>1, <1>5 DEF OneReleaser, MappingIsTracked, OffClears, adapter
<1>9. GrantIsCounted' /\ GrantIsRemembered'
  <2>1. GrantIsCounted'
    BY <1>1, <1>3, <1>4, <1>5 DEF GrantIsCounted, GrantIsRemembered, OneReleaser, Policies, adapter, TunnelTyped, FlagsTyped, PoliciesTyped, StagesTyped
  <2>2. GrantIsRemembered'
    BY <1>1, <1>3, <1>4, <1>5 DEF GrantIsCounted, GrantIsRemembered, OneReleaser, Policies, adapter, TunnelTyped, FlagsTyped, PoliciesTyped, StagesTyped
  <2> QED BY <2>1, <2>2
<1>10. CleanExitLeavesNothing'
  <2> SUFFICES ASSUME exit' = "clean", establish # "failed"
               PROVE  ~mapping' /\ policy'.ours = wanted'.ours /\ policy'.key = wanted'.key
    BY <1>1 DEF CleanExitLeavesNothing
  <2>1. ~mapping /\ policy.ours = wanted.ours /\ (policy.key <=> wanted.key)
    BY <1>1, <1>11 DEF GrantIsRemembered, MappingIsTracked, Running
  <2>2. policy.key \in BOOLEAN /\ wanted.key \in BOOLEAN
    BY <1>4 DEF Policies
  <2>3. policy' = policy /\ wanted' = wanted /\ mapping' = mapping
    BY <1>1, <1>11
  <2> QED BY <2>1, <2>2, <2>3
<1> QED BY <1>6, <1>7, <1>8, <1>9, <1>10

\* The steps of the establish before its write leave the policy alone.
LEMMA EstablishKeeps ==
  ASSUME TunnelInv, NEW ok \in BOOLEAN, EstablishServe(ok) \/ EstablishStatus(ok) \/ EstablishFetch(ok)
  PROVE  TunnelInv'
<1> USE TunnelAssumption DEF TunnelInv, outside, adapter, daemon, EstablishServe, EstablishStatus, EstablishFetch, EstablishFails, AlreadyGranted
<1>1. FlagsTyped'
  BY DEF TunnelTyped, FlagsTyped, PoliciesTyped, StagesTyped
<1>2. PoliciesTyped'
  BY DEF TunnelTyped, FlagsTyped, PoliciesTyped, StagesTyped
<1>3. StagesTyped'
  BY DEF TunnelTyped, FlagsTyped, PoliciesTyped, StagesTyped
<1>4. ReadEarlier' /\ OneReleaser'
  BY DEF ReadEarlier, OneReleaser, Running, Policies, TunnelTyped, FlagsTyped, PoliciesTyped, StagesTyped
<1>5. GrantIsCounted' /\ GrantIsRemembered'
  BY DEF GrantIsCounted, GrantIsRemembered, OneReleaser, Running, Policies, TunnelTyped, FlagsTyped, PoliciesTyped, StagesTyped
<1>6. MappingIsTracked' /\ OffClears' /\ CleanExitLeavesNothing'
  BY DEF MappingIsTracked, OffClears, CleanExitLeavesNothing, GrantIsCounted, GrantIsRemembered, OneReleaser, Running, TunnelTyped, FlagsTyped, PoliciesTyped, StagesTyped
<1> QED BY <1>1, <1>2, <1>3, <1>4, <1>5, <1>6 DEF TunnelTyped

\* The steps of the shutdown leave what is outside, and what the adapter remembers.
LEMMA ShutdownKeeps ==
  ASSUME TunnelInv, CloseFailedServe \/ ServerClosed \/ Signal \/ ShutdownResolves \/ WaitIsOver \/ ReleaseIsOver \/ BudgetRunsOut
  PROVE  TunnelInv'
<1> USE TunnelAssumption DEF TunnelInv, outside, adapter, daemon, CloseFailedServe, ServerClosed, Signal, ShutdownResolves, WaitIsOver, ReleaseIsOver, BudgetRunsOut, ResolveTunnel, Establishing, InBudget, TeardownStarts
<1>1. FlagsTyped'
  BY DEF TunnelTyped, FlagsTyped, PoliciesTyped, StagesTyped
<1>2. PoliciesTyped'
  BY DEF TunnelTyped, FlagsTyped, PoliciesTyped, StagesTyped
<1>3. StagesTyped'
  BY DEF TunnelTyped, FlagsTyped, PoliciesTyped, StagesTyped
<1>4. ReadEarlier' /\ OneReleaser'
  BY DEF ReadEarlier, OneReleaser, Running, Policies, TunnelTyped, FlagsTyped, PoliciesTyped, StagesTyped
<1>5. GrantIsCounted' /\ GrantIsRemembered'
  BY DEF GrantIsCounted, GrantIsRemembered, OneReleaser, Running, Policies, TunnelTyped, FlagsTyped, PoliciesTyped, StagesTyped
<1>6. MappingIsTracked' /\ OffClears' /\ CleanExitLeavesNothing'
  BY DEF MappingIsTracked, OffClears, CleanExitLeavesNothing, GrantIsCounted, GrantIsRemembered, OneReleaser, Running, TunnelTyped, FlagsTyped, PoliciesTyped, StagesTyped
<1> QED BY <1>1, <1>2, <1>3, <1>4, <1>5, <1>6 DEF TunnelTyped

\* A teardown that finds no grant is one of --off: a daemon's has its own.
LEMMA TeardownKeeps ==
  ASSUME TunnelInv, NEW ok \in BOOLEAN, TeardownFetch(ok) \/ TeardownOff(ok)
  PROVE  TunnelInv'
<1> USE TunnelAssumption DEF TunnelInv, outside, adapter, daemon, TeardownFetch, TeardownOff, Releasing, AfterRevert
<1>1. FlagsTyped'
  BY DEF TunnelTyped, FlagsTyped, PoliciesTyped, StagesTyped
<1>2. PoliciesTyped'
  BY DEF TunnelTyped, FlagsTyped, PoliciesTyped, StagesTyped
<1>3. StagesTyped'
  BY DEF TunnelTyped, FlagsTyped, PoliciesTyped, StagesTyped
<1>4. ReadEarlier' /\ OneReleaser'
  BY DEF ReadEarlier, OneReleaser, Running, Policies, TunnelTyped, FlagsTyped, PoliciesTyped, StagesTyped
<1>5. GrantIsCounted' /\ GrantIsRemembered'
  BY DEF GrantIsCounted, GrantIsRemembered, OneReleaser, Running, Policies, TunnelTyped, FlagsTyped, PoliciesTyped, StagesTyped
<1>6. MappingIsTracked'
  BY DEF MappingIsTracked, OneReleaser, Running, TunnelTyped, FlagsTyped, StagesTyped
<1>7. OffClears'
  BY DEF OffClears, TunnelTyped, FlagsTyped, PoliciesTyped, Policies
<1>8. CleanExitLeavesNothing'
  BY DEF CleanExitLeavesNothing, OneReleaser, Running
<1> QED BY <1>1, <1>2, <1>3, <1>4, <1>5, <1>6, <1>7, <1>8 DEF TunnelTyped

\* --off claims what the declaration says the daemon may have left.
LEMMA OffKeeps ==
  ASSUME TunnelInv, TearDownAndReport
  PROVE  TunnelInv'
<1> USE TunnelAssumption DEF TunnelInv, outside, adapter, daemon, TearDownAndReport, Adopt, TeardownStarts
<1>1. FlagsTyped'
  BY DEF TunnelTyped, FlagsTyped, PoliciesTyped, StagesTyped
<1>2. PoliciesTyped'
  BY DEF TunnelTyped, FlagsTyped, PoliciesTyped, StagesTyped
<1>3. StagesTyped'
  BY DEF TunnelTyped, FlagsTyped, PoliciesTyped, StagesTyped
<1>4. ReadEarlier' /\ OneReleaser'
  BY DEF ReadEarlier, OneReleaser, Running, Policies, TunnelTyped, FlagsTyped, PoliciesTyped, StagesTyped
<1>5. GrantIsCounted' /\ GrantIsRemembered'
  BY DEF GrantIsCounted, GrantIsRemembered, OneReleaser, Running, Policies, TunnelTyped, FlagsTyped, PoliciesTyped, StagesTyped
<1>6. MappingIsTracked' /\ CleanExitLeavesNothing'
  BY DEF MappingIsTracked, CleanExitLeavesNothing, Running, TunnelTyped, StagesTyped
<1>7. OffClears'
  <2>1. /\ servedLocal' = TRUE /\ UNCHANGED outside
        /\ release' = IF provisionedGrant' /\ Provisioning THEN "fetch" ELSE "off"
        /\ provisionedGrant' = Provisioning
    BY DEF TearDownAndReport
  <2>2. release' # "done" /\ (release' = "off" => ~Provisioning)
    BY <2>1
  <2> QED BY <2>1, <2>2 DEF OffClears, GrantIsCounted, TunnelTyped, PoliciesTyped, Policies
<1> QED BY <1>1, <1>2, <1>3, <1>4, <1>5, <1>6, <1>7 DEF TunnelTyped

LEMMA TunnelStepKeeps == TunnelInv /\ [TunnelNext]_tunnelVars => TunnelInv'
<1> SUFFICES ASSUME TunnelInv, [TunnelNext]_tunnelVars PROVE TunnelInv'
  OBVIOUS
<1>1. CASE UNCHANGED tunnelVars
  BY <1>1 DEF tunnelVars, outside, adapter, daemon, TunnelInv, TunnelTyped, FlagsTyped, PoliciesTyped, StagesTyped,
     ReadEarlier, OneReleaser, GrantIsCounted, GrantIsRemembered, MappingIsTracked, OffClears,
     CleanExitLeavesNothing, Running
<1> QED BY <1>1, OperatorKeeps, EstablishKeeps, EstablishSaveKeeps, ShutdownKeeps, TeardownKeeps, TeardownSaveKeeps,
       OffKeeps, ExitKeeps DEF TunnelNext

\* Whenever serve's establish, the shutdown's teardown, --off and the operator's edits
\* interleave, whatever answers are lost, the adapter knows what it has provisioned.
THEOREM TunnelInvariant == TunnelSpec => []TunnelInv
BY TunnelInitInv, TunnelStepKeeps, PTL DEF TunnelSpec

\* Whatever answers are lost and wherever the process ends, no write of the adapter
\* takes away an edit of the operator's, nor, before --off, a grant of their own.
THEOREM OperatorsPolicySurvivesAlways == TunnelSpec => []OperatorsPolicySurvives
<1>1. TunnelInv => OperatorsPolicySurvives
  BY DEF TunnelInv, GrantIsCounted, OperatorsPolicySurvives
<1> QED BY <1>1, TunnelInvariant, PTL

\* A signal that ends cleanly leaves the tailnet as the operator made it, whichever
\* step of the establish it came at.
THEOREM CleanExitLeavesNothingAlways == TunnelSpec => []CleanExitLeavesNothing
<1>1. TunnelInv => CleanExitLeavesNothing
  BY DEF TunnelInv
<1> QED BY <1>1, TunnelInvariant, PTL

\* --off that succeeds has cleared what a daemon left, however it ended.
THEOREM RemedyClearsAlways == TunnelSpec => []RemedyClears
<1>1. TunnelInv => RemedyClears
  BY DEF TunnelInv, OffClears, RemedyClears
<1> QED BY <1>1, TunnelInvariant, PTL
=============================================================================
