------------------------------ MODULE StateFile ------------------------------
(***************************************************************************)
(* Persistence of the shared tables: bs_state_save writes a snapshot to    *)
(* <path>.tmp, syncs it, renames it to <path> and syncs the directory;     *)
(* bs_state_load fills a new segment from <path>.  The periodic save runs  *)
(* in a child process (mod_watchdog), the saves of a restart in the        *)
(* parent; both use the same temporary name.                               *)
(*                                                                         *)
(* The tables are abstracted to the number of the last update they hold,   *)
(* which orders snapshots.  Files are abstracted to inodes that are empty, *)
(* cut short or hold one snapshot; a directory maps the two names to       *)
(* inodes.  A machine crash keeps what was synced and may keep the rest.   *)
(* The configuration is the same after a restart and the file is not past  *)
(* the age at which it is dropped.                                         *)
(***************************************************************************)
EXTENDS Integers

CONSTANTS
    Savers,      \* the processes that save: the parent and the watchdog child
    Parent,      \* the one that also restarts and loads
    Inode,       \* file numbers
    NoInode,     \* a name that does not exist, a file that is not open
    Exclusive,   \* TRUE: no save of the child overlaps a restart, which the
                 \* code does not see to
    MaxUpdates,  \* bound on the updates of the tables
    MaxFaults    \* bound on the failed calls, kills and machine crashes

ASSUME StateAssumption ==
    /\ Parent \in Savers
    /\ NoInode \notin Inode
    /\ Exclusive \in BOOLEAN
    /\ MaxUpdates \in Nat /\ MaxFaults \in Nat

VARIABLES
    mem,      \* the last update in the segment that serves requests
    last,     \* the number of updates so far
    spc,      \* where each save is
    snap,     \* the update its snapshot includes
    fd,       \* its open file
    boot,     \* what the parent does with its save: "up", "save", "load"
    dir,      \* the directory
    cache,    \* what a read of each inode returns
    sdir,     \* the directory as it would be found after a machine crash,
    synced,   \* and the inodes, unless the newer ones made it to the disk
    counted,  \* history: the newest snapshot counted as saved and not lost
    durable,  \* history: the newest one whose directory was synced
    faults    \* failures so far

diskVars == <<dir, cache, sdir, synced>>
saved == <<counted, durable>>
stateVars == <<mem, last, spc, snap, fd, boot, diskVars, saved, faults>>

Names == {"path", "tmp"}
Empty == -1        \* no byte written: "bad size" to a loader
Short == -2        \* cut short: the checksum does not match
Snapshots == 0 .. MaxUpdates
SaveSteps == {"idle", "open", "write", "sync", "rename", "syncdir"}

StateTypeOK ==
    /\ mem \in Nat /\ last \in Nat
    /\ spc \in [Savers -> SaveSteps]
    /\ snap \in [Savers -> Nat]
    /\ fd \in [Savers -> Inode \cup {NoInode}]
    /\ boot \in {"up", "save", "load"}
    /\ dir \in [Names -> Inode \cup {NoInode}] /\ sdir \in [Names -> Inode \cup {NoInode}]
    /\ cache \in [Inode -> Int] /\ synced \in [Inode -> Int]
    /\ counted \in Nat /\ durable \in Nat /\ faults \in Nat

StateInit ==
    /\ mem = 0 /\ last = 0
    /\ spc = [s \in Savers |-> "idle"]
    /\ snap = [s \in Savers |-> 0]
    /\ fd = [s \in Savers |-> NoInode]
    /\ boot = "up"
    /\ dir = [n \in Names |-> NoInode]
    /\ cache = [i \in Inode |-> Empty]
    /\ sdir = dir
    /\ synced = cache
    /\ counted = 0 /\ durable = 0
    /\ faults = 0

----------------------------------------------------------------------------
\* A request changes a table.
Update ==
    /\ last < MaxUpdates
    /\ last' = last + 1
    /\ mem' = last + 1
    /\ UNCHANGED <<spc, snap, fd, boot, diskVars, saved, faults>>

Fault == faults < MaxFaults /\ faults' = faults + 1

\* The save of s is over.
End(s) ==
    /\ spc' = [spc EXCEPT ![s] = "idle"]
    /\ snap' = [snap EXCEPT ![s] = 0]
    /\ fd' = [fd EXCEPT ![s] = NoInode]

\* A restart goes on to load whether its save worked or not.
AfterSave(s) == boot' = IF s = Parent /\ boot = "save" THEN "load" ELSE boot

\* No save is under way.
Quiet == \A t \in Savers : spc[t] = "idle"

\* Mutant of Snapshot: the hand-off save looks at the new, empty segment.
SnapshotNew(s) ==
    /\ spc[s] = "idle"
    /\ IF s = Parent THEN boot = "save" ELSE Exclusive => boot = "up"
    /\ Exclusive => Quiet
    /\ spc' = [spc EXCEPT ![s] = "open"]
    /\ snap' = [snap EXCEPT ![s] = IF s = Parent THEN 0 ELSE mem]
    /\ UNCHANGED <<mem, last, fd, boot, diskVars, saved, faults>>

\* The snapshot, taken under the global mutex.
Snapshot(s) ==
    /\ spc[s] = "idle"
    /\ IF s = Parent THEN boot = "save" ELSE Exclusive => boot = "up"
    /\ Exclusive => Quiet
    /\ spc' = [spc EXCEPT ![s] = "open"]
    /\ snap' = [snap EXCEPT ![s] = mem]
    /\ UNCHANGED <<mem, last, fd, boot, diskVars, saved, faults>>

\* The mutex was not free within two seconds: nothing is saved.
SkipSave(s) ==
    /\ spc[s] = "idle"
    /\ s = Parent /\ boot = "save"
    /\ Fault
    /\ AfterSave(s)
    /\ UNCHANGED <<mem, last, spc, snap, fd, diskVars, saved>>

\* Inodes that no name and no open file refers to.
Unlinked(i) ==
    /\ \A n \in Names : dir[n] # i /\ sdir[n] # i
    /\ \A s \in Savers : fd[s] # i

\* <path>.tmp is created, or truncated when it is there already.
Open(s) ==
    /\ spc[s] = "open"
    /\ \E i \in Inode :
        /\ IF dir["tmp"] # NoInode THEN i = dir["tmp"] ELSE Unlinked(i)
        /\ fd' = [fd EXCEPT ![s] = i]
        /\ dir' = [dir EXCEPT !["tmp"] = i]
        /\ cache' = [cache EXCEPT ![i] = Empty]
        /\ synced' = [synced EXCEPT ![i] = IF Unlinked(i) THEN Empty ELSE @]
    /\ spc' = [spc EXCEPT ![s] = "write"]
    /\ UNCHANGED <<mem, last, snap, boot, sdir, saved, faults>>

\* Mutant of Write: the file is not synced before it is renamed.
WriteOnly(s) ==
    /\ spc[s] = "write"
    /\ cache' = [cache EXCEPT ![fd[s]] = snap[s]]
    /\ spc' = [spc EXCEPT ![s] = "rename"]
    /\ UNCHANGED <<mem, last, snap, fd, boot, dir, sdir, synced, saved, faults>>

Write(s) ==
    /\ spc[s] = "write"
    /\ cache' = [cache EXCEPT ![fd[s]] = snap[s]]
    /\ spc' = [spc EXCEPT ![s] = "sync"]
    /\ UNCHANGED <<mem, last, snap, fd, boot, dir, sdir, synced, saved,
                   faults>>

Sync(s) ==
    /\ spc[s] = "sync"
    /\ synced' = [synced EXCEPT ![fd[s]] = cache[fd[s]]]
    /\ spc' = [spc EXCEPT ![s] = "rename"]
    /\ UNCHANGED <<mem, last, snap, fd, boot, dir, cache, sdir, saved,
                   faults>>

\* The file is closed; its name is moved, if it is still there.
Rename(s) ==
    /\ spc[s] = "rename"
    /\ dir["tmp"] # NoInode
    /\ dir' = [path |-> dir["tmp"], tmp |-> NoInode]
    /\ spc' = [spc EXCEPT ![s] = "syncdir"]
    /\ fd' = [fd EXCEPT ![s] = NoInode]
    /\ UNCHANGED <<mem, last, snap, boot, cache, sdir, synced, saved,
                   faults>>

AsNewAs(m, n) == IF m < n THEN n ELSE m

\* Mutant of SyncDir: the directory is not synced.
SkipSyncDir(s) ==
    /\ spc[s] = "syncdir"
    /\ durable' = AsNewAs(durable, snap[s])
    /\ counted' = AsNewAs(counted, snap[s])
    /\ End(s)
    /\ AfterSave(s)
    /\ UNCHANGED <<mem, last, diskVars, faults>>

\* bs_fsync_parent_dir, whose failure is passed over, and the save counts.
SyncDir(s) ==
    /\ spc[s] = "syncdir"
    /\ \/ /\ sdir' = dir
          /\ durable' = AsNewAs(durable, snap[s])
          /\ UNCHANGED faults
       \/ /\ Fault
          /\ UNCHANGED <<sdir, durable>>
    /\ counted' = AsNewAs(counted, snap[s])
    /\ End(s)
    /\ AfterSave(s)
    /\ UNCHANGED <<mem, last, dir, cache, synced>>

\* Mutant of Fail: a failed save removes the state file.
FailPath(s) ==
    /\ spc[s] \in {"open", "write", "sync", "rename"}
    /\ Fault
    /\ IF spc[s] = "open"
         THEN UNCHANGED dir
         ELSE dir' = [dir EXCEPT !["path"] = NoInode]
    /\ End(s)
    /\ AfterSave(s)
    /\ UNCHANGED <<mem, last, cache, sdir, synced, saved>>

\* A call fails: the temporary file is removed and the save gives up.  So does
\* a short write, whatever the status it returns.
Fail(s) ==
    /\ spc[s] \in {"open", "write", "sync", "rename"}
    /\ IF spc[s] = "rename" /\ dir["tmp"] = NoInode
         THEN UNCHANGED faults
         ELSE Fault
    /\ IF spc[s] = "open"
         THEN UNCHANGED <<dir, cache>>
         ELSE /\ dir' = [dir EXCEPT !["tmp"] = NoInode]
              /\ cache' = IF spc[s] = "write"
                            THEN [cache EXCEPT ![fd[s]] = Short] ELSE cache
    /\ End(s)
    /\ AfterSave(s)
    /\ UNCHANGED <<mem, last, sdir, synced, saved>>

\* The child dies in the middle of a save and leaves the file as it is.
Kill(s) ==
    /\ s # Parent
    /\ spc[s] # "idle"
    /\ Fault
    /\ End(s)
    /\ UNCHANGED <<mem, last, boot, diskVars, saved>>

\* A restart: the parent saves the segment that is about to be replaced ...
Restart ==
    /\ boot = "up"
    /\ Exclusive => Quiet
    /\ boot' = "save"
    /\ UNCHANGED <<mem, last, spc, snap, fd, diskVars, saved, faults>>

\* What bs_state_load makes of a directory and its inodes: a file that is
\* missing, too short or fails the checksum means a fresh start.
Loaded(d, c) ==
    IF d["path"] = NoInode \/ c[d["path"]] < 0 THEN 0 ELSE c[d["path"]]

\* ... and fills the new one from the file.
Load ==
    /\ boot = "load"
    /\ boot' = "up"
    /\ mem' = Loaded(dir, cache)
    /\ UNCHANGED <<last, spc, snap, fd, diskVars, saved, faults>>

\* The kernel writes back what nobody has synced, the file half or whole.
WriteBack ==
    /\ \/ /\ \E i \in Inode : \E c \in {cache[i], Short} :
                /\ synced[i] # cache[i]
                /\ synced' = [synced EXCEPT ![i] = c]
          /\ UNCHANGED sdir
       \/ /\ sdir' = dir
          /\ UNCHANGED synced
    /\ UNCHANGED <<mem, last, spc, snap, fd, boot, dir, cache, saved, faults>>

\* The server stops without a save, alone or with the machine, and comes up
\* again with the files it finds.
PowerLoss(d, c) ==
    /\ Fault
    /\ spc' = [s \in Savers |-> "idle"]
    /\ snap' = [s \in Savers |-> 0]
    /\ fd' = [s \in Savers |-> NoInode]
    /\ dir' = d
    /\ cache' = c
    /\ mem' = Loaded(d, c)
    /\ counted' = Loaded(d, c)
    /\ boot' = "up"
    /\ UNCHANGED <<last, sdir, synced, durable>>

Save(s) ==
    \/ Snapshot(s)
    \/ SkipSave(s)
    \/ Open(s)
    \/ Write(s)
    \/ Sync(s)
    \/ Rename(s)
    \/ SyncDir(s)
    \/ Fail(s)
    \/ Kill(s)

StateNext ==
    \/ Update
    \/ \E s \in Savers : Save(s)
    \/ Restart
    \/ Load
    \/ WriteBack
    \/ PowerLoss(dir, cache)
    \/ PowerLoss(sdir, synced)

StateSpec == StateInit /\ [][StateNext]_stateVars

----------------------------------------------------------------------------
\* Whenever the power fails, the file found at <path> is a whole snapshot: it
\* is given its name only when its bytes are on the disk.
DiskUsable == sdir["path"] # NoInode => synced[sdir["path"]] >= 0

\* Whenever the power fails, what is found is no older than the last save
\* that synced the directory.
DurableOnDisk == durable <= Loaded(sdir, synced)

\* A restart hands over: the new segment starts from the newest snapshot that
\* was counted as saved, by the hand-off or the child before it, or from a
\* newer one.
SurvivesRestart == [][Load => mem' >= counted]_stateVars

\* As long as nothing crashes, the file at <path> never goes back to an older
\* snapshot, nor to one that cannot be loaded.
NeverBack ==
    [][~ (PowerLoss(dir, cache) \/ PowerLoss(sdir, synced))
       => Loaded(dir, cache)' >= Loaded(dir, cache)]_stateVars
=============================================================================
