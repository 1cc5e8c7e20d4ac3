------------------------------ MODULE PeResources ------------------------------
(***************************************************************************)
(* PeResourceParser::parse (src/src/pe_resources.cc): the walk through the *)
(* directories of a PE resource section.  The recursive lambda is a stack  *)
(* of frames, one step per directory entry; the top frame is the last.     *)
(*                                                                         *)
(* A resource section is its address, its size, the directories and data   *)
(* descriptors there are by their offset in it, and the image around it.   *)
(* Directory entries are named by a number, or by a text elsewhere in the  *)
(* section: its offset, its length in characters and whether it has an     *)
(* unpaired surrogate.                                                     *)
(***************************************************************************)
EXTENDS Translator, FiniteSets

LOCAL INSTANCE SequencesExt

CONSTANTS
    Resources,          \* the resource sections there may be: a function
    MaxString, MaxSections, MaxDepth, MaxSectionBytes       \* limits_

VARIABLES
    resource_key,       \* the resource section that is walked
    resource_stage,     \* "start", "walk" or "done"
    resource_error,     \* error.code; "none" when the report is returned
    frames,             \* the calls of walk: relative, path and next entry
    active,             \* active_directories
    entries,            \* report.entries
    total               \* report.total_bytes

resource_vars == <<resource_key, resource_stage, resource_error, frames, active,
                   entries, total>>

Section == Resources[resource_key]
Directory(relative) ==
    IF relative \in DOMAIN Section.directories
    THEN Section.directories[relative] ELSE <<>>

Fail(error) ==
    /\ resource_stage' = "done"
    /\ resource_error' = error
    /\ frames' = <<>>
    /\ active' = {}
    /\ entries' = <<>>
    /\ total' = 0

\* The beginning of walk(relative, depth, path), called with the frames below.
EnterError(section, below, relative) ==
    LET count == IF relative \in DOMAIN section.directories
                 THEN Len(section.directories[relative]) ELSE 0
    IN
    IF Len(below) > MaxDepth THEN "resource_limit"
    ELSE IF relative \in active THEN "invalid_section"
    ELSE IF ~RangeInside(relative, 16, section.size) THEN "truncated"
    ELSE IF \/ count > MaxSections
            \/ ~RangeInside(relative + 16, 8 * count, section.size)
         THEN "resource_limit"
    ELSE "none"

Enter(section, below, relative, path) ==
    LET error == EnterError(section, below, relative) IN
    IF error # "none" THEN Fail(error)
    ELSE /\ frames' = Append(below, [relative |-> relative, path |-> path,
                                     next |-> 1])
         /\ active' = active \cup {relative}
         /\ resource_stage' = "walk"
         /\ resource_error' = "none"
         /\ UNCHANGED <<entries, total>>

-----------------------------------------------------------------------------
\* parse, up to the first call of walk.
StartError(section) ==
    LET root == RvaToFile(section.image, section.rva, section.size) IN
    IF section.image.header.format # "pe_like" THEN "invalid_header"
    ELSE IF section.size = 0 THEN "empty"
    ELSE IF section.size > MaxSectionBytes THEN "resource_limit"
    ELSE IF \A place \in root : ~RangeInside(place.file_offset, section.size,
                                             section.image.file.size)
         THEN "invalid_offset"
    ELSE "none"

\* A section of no bytes has an empty report.
StartWalk(key) ==
    LET error == StartError(Resources[key]) IN
    /\ resource_stage = "start"
    /\ resource_key' = key
    /\ IF error = "empty" THEN Fail("none")
       ELSE IF error # "none" THEN Fail(error)
       ELSE Enter(Resources[key], <<>>, 0, <<>>)

\* resource_name.
NameError(name) ==
    IF name.numeric THEN "none"
    ELSE IF ~RangeInside(name.offset, 2, Section.size) THEN "invalid_string"
    ELSE IF \/ 2 * name.characters > MaxString
            \/ ~RangeInside(name.offset + 2, 2 * name.characters, Section.size)
         THEN "resource_limit"
    ELSE IF name.surrogate THEN "invalid_string" ELSE "none"

LeafError(target, place) ==
    IF \/ ~RangeInside(target, 16, Section.size)
       \/ place = {}
    THEN "invalid_offset"
    ELSE IF Len(entries) >= MaxSections THEN "resource_limit"
    ELSE IF ~AddFits(total, Section.data[target].size) THEN "address_overflow"
    ELSE "none"

\* A bug in AddLeaf: only the first byte of the data is looked for in the file.
AddLeafFirstByte(path, target) ==
    LET descriptor == Section.data[target]
        place == RvaToFile(Section.image, descriptor.rva, 1)
        error == LeafError(target, place)
    IN
    IF error # "none" THEN Fail(error)
    ELSE /\ entries' = Append(entries,
                [path |-> path, size |-> descriptor.size,
                 file_offset |-> (CHOOSE p \in place : TRUE).file_offset])
         /\ total' = total + descriptor.size
         /\ frames' = [frames EXCEPT ![Len(frames)].next = @ + 1]
         /\ UNCHANGED <<resource_stage, resource_error, active>>

\* A data entry: type, name and language are the first names of its path.
AddLeaf(path, target) ==
    LET descriptor == Section.data[target]
        place == RvaToFile(Section.image, descriptor.rva, descriptor.size)
        error == LeafError(target, place)
    IN
    IF error # "none" THEN Fail(error)
    ELSE /\ entries' = Append(entries,
                [path |-> path, size |-> descriptor.size,
                 file_offset |-> (CHOOSE p \in place : TRUE).file_offset])
         /\ total' = total + descriptor.size
         /\ frames' = [frames EXCEPT ![Len(frames)].next = @ + 1]
         /\ UNCHANGED <<resource_stage, resource_error, active>>

\* A bug in WalkEntry: the loop does not go on after a directory.
WalkEntryAgain ==
    LET top == Last(frames)
        entry == Directory(top.relative)[top.next]
        path == Append(top.path, entry.name.id)
    IN
    /\ resource_stage = "walk"
    /\ top.next <= Len(Directory(top.relative))
    /\ IF entry.directory THEN Enter(Section, frames, entry.target, path)
       ELSE AddLeaf(path, entry.target)
    /\ UNCHANGED resource_key

\* One turn of the loop over the entries of a directory.
WalkEntry ==
    LET top == Last(frames)
        entry == Directory(top.relative)[top.next]
        path == Append(top.path, entry.name.id)
        below == [frames EXCEPT ![Len(frames)].next = @ + 1]
    IN
    /\ resource_stage = "walk"
    /\ top.next <= Len(Directory(top.relative))
    /\ IF NameError(entry.name) # "none" THEN Fail(NameError(entry.name))
       ELSE IF entry.directory THEN Enter(Section, below, entry.target, path)
       ELSE AddLeaf(path, entry.target)
    /\ UNCHANGED resource_key

\* A bug in LeaveDirectory: the directory stays among the active ones.
LeaveDirectoryMarked ==
    LET top == Last(frames) IN
    /\ resource_stage = "walk"
    /\ top.next > Len(Directory(top.relative))
    /\ frames' = Front(frames)
    /\ resource_stage' = IF Len(frames) = 1 THEN "done" ELSE "walk"
    /\ UNCHANGED <<resource_key, resource_error, active, entries, total>>

\* The end of walk.
LeaveDirectory ==
    LET top == Last(frames) IN
    /\ resource_stage = "walk"
    /\ top.next > Len(Directory(top.relative))
    /\ frames' = Front(frames)
    /\ active' = active \ {top.relative}
    /\ resource_stage' = IF Len(frames) = 1 THEN "done" ELSE "walk"
    /\ UNCHANGED <<resource_key, resource_error, entries, total>>

ResourceInit ==
    /\ resource_key = CHOOSE key \in DOMAIN Resources : TRUE
    /\ resource_stage = "start"
    /\ resource_error = "none"
    /\ frames = <<>> /\ active = {} /\ entries = <<>> /\ total = 0

ResourceNext ==
    \/ \E key \in DOMAIN Resources : StartWalk(key)
    \/ WalkEntry
    \/ LeaveDirectory

-----------------------------------------------------------------------------
\* The directories an entry of a directory leads to, and all of them.
Below(relative) ==
    {entry.target : entry \in {e \in ToSet(Directory(relative)) : e.directory}}
Reached(relative) ==
    LET size == Cardinality(DOMAIN Section.directories)
        step[n \in 0..size] ==
            IF n = 0 THEN Below(relative)
            ELSE step[n - 1] \cup UNION {Below(r) : r \in step[n - 1]}
    IN  step[size]

\* The directories that are being walked are those of the frames, each once and
\* no more than the depth allows: a directory that several entries share is not
\* taken for a cycle.  A cycle is reported exactly for a directory below itself,
\* and no report is made of a section with one (the active_directories of
\* PeResourceParser::parse).
CyclesAreFound ==
    /\ active = {frames[i].relative : i \in 1..Len(frames)}
    /\ IsInjective([i \in 1..Len(frames) |-> frames[i].relative])
    /\ Len(frames) <= MaxDepth + 1
    /\ resource_error = "invalid_section" =>
          \E r \in {0} \cup Reached(0) : r \in Reached(r)
    /\ resource_stage = "done" /\ resource_error = "none" /\ Section.size # 0 =>
          \A r \in {0} \cup Reached(0) : r \notin Reached(r)

\* In an image whose sections lie in the file, the bytes of every entry of the
\* report, which are given to crc32, lie in the file, and the total is theirs.
\* No two entries have the same path, where the entries of every directory have
\* different names (the report of PeResourceParser::parse).
PayloadsAreInTheFile ==
    /\ (\A n \in 1..Len(Section.image.sections) :
           RangeInside(Section.image.sections[n].file_offset,
                       Section.image.sections[n].file_size,
                       Section.image.file.size)) =>
          \A i \in 1..Len(entries) :
             RangeInside(entries[i].file_offset, entries[i].size,
                         Section.image.file.size)
    /\ total = FoldLeft(LAMBDA sum, e : sum + e.size, 0, entries)
    /\ (\A r \in DOMAIN Section.directories :
           IsInjective([i \in 1..Len(Directory(r)) |->
                          Directory(r)[i].name.id])) =>
          IsInjective([i \in 1..Len(entries) |-> entries[i].path])

\* Every walk ends, cycles and shared directories included: the limits of depth
\* and number stop one that the set of active directories does not
\* (PeResourceParser::parse).
WalksEnd == (resource_stage = "walk") ~> (resource_stage = "done")
================================================================================
