-------------------------------- MODULE Disk --------------------------------
(***************************************************************************)
(* The file system as receive_file uses it: open, write, ftruncate, fsync, *)
(* unlinkat and rename.  A file is a sequence of blocks.  The state of a   *)
(* name is                                                                 *)
(*   now    what every process reads: the content, or NoFile; it survives  *)
(*          the death of a process;                                        *)
(*   data   what a power failure may leave of the file that the name       *)
(*          refers to; fsync of the file settles it;                       *)
(*   names  what else the name may refer to after a power failure, because *)
(*          its directory has not been synchronised since it changed.      *)
(* Each unsynchronised change survives a power failure or not,             *)
(* independently of the others: POSIX promises no more.  The directories   *)
(* themselves are taken to exist and to survive.                           *)
(***************************************************************************)
EXTENDS Integers, Sequences, FiniteSets, FiniteSetsExt

CONSTANTS Block,     \* the unit of a write
          Zero,      \* the block read from a hole or a page never written
          NoFile     \* the content of a name that does not exist

Content == Seq(Block)

ASSUME DiskAssumption == Zero \in Block /\ NoFile \notin Content

Entry == [now : Content \cup {NoFile},
          data : SUBSET (Content \cup {NoFile}),
          names : SUBSET (Content \cup {NoFile})]

Stored(content) == [now |-> content, data |-> {content}, names |-> {}]

Exists(entry) == entry.now # NoFile

(* What the name may hold after a power failure. *)
Outcomes(entry) == entry.data \cup entry.names

(* What is left of a file that is old on the medium and new in the page     *)
(* cache: a length between the two, and in every place that differs a block *)
(* of either version or one that was never written back.                    *)
Torn(old, new) ==
    LET Of(d, i) == IF i \in DOMAIN d THEN {d[i]} ELSE {Zero}
        Left(i)  == IF Of(old, i) = Of(new, i) THEN Of(new, i)
                    ELSE Of(old, i) \cup Of(new, i) \cup {Zero}
        short    == Min({Len(old), Len(new)})
        long     == Max({Len(old), Len(new)})
    IN  UNION {{d \in [1 .. n -> Block] : \A i \in 1 .. n : d[i] \in Left(i)} :
               n \in short .. long}

(* The content after writing blocks at a position: a gap becomes a hole. *)
WriteAt(content, position, blocks) ==
    [i \in 1 .. Max({Len(content), position + Len(blocks)}) |->
        IF i \in position + 1 .. position + Len(blocks) THEN blocks[i - position]
        ELSE IF i <= Len(content) THEN content[i] ELSE Zero]
-----------------------------------------------------------------------------
(* openat with O_CREAT. *)
OpenedOrCreated(entry) ==
    IF Exists(entry) THEN entry
    ELSE [now |-> << >>, data |-> {<< >>}, names |-> entry.names \cup {NoFile}]

(* write or ftruncate. *)
Changed(entry, new) ==
    [now |-> new,
     data |-> entry.data \cup UNION {Torn(old, new) : old \in entry.data},
     names |-> entry.names]

(* fsync of the file, and of the directory that holds its name. *)
FileSynced(entry) == [now |-> entry.now, data |-> {entry.now}, names |-> entry.names]

NameSynced(entry) == [now |-> entry.now, data |-> entry.data, names |-> {}]

(* unlinkat. *)
Unlinked(entry) ==
    [now |-> NoFile, data |-> {NoFile}, names |-> Outcomes(entry)]

(* rename of the file of entry to the name whose state was old. *)
RenamedOver(old, entry) ==
    [now |-> entry.now, data |-> entry.data, names |-> Outcomes(old)]

(* The states in which a power failure may leave a directory of names. *)
AfterPowerFailure(entries) ==
    LET keys == DOMAIN entries
        open == {k \in keys : Cardinality(Outcomes(entries[k])) > 1}
    IN  {[k \in keys |-> IF k \in open THEN Stored(left[k]) ELSE Stored(entries[k].now)] :
           left \in {f \in [open -> UNION {Outcomes(entries[k]) : k \in open}] :
                       \A k \in open : f[k] \in Outcomes(entries[k])}}
=============================================================================
