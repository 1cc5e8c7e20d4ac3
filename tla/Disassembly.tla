------------------------------- MODULE Disassembly -------------------------------
(***************************************************************************)
(* DisassemblyAnalyzer::analyze (src/src/disassembly_analyzer.cc) on top   *)
(* of a decoder (src/src/disassembler.cc, fixed_disassemblers.cc):         *)
(* instructions are decoded one after the other, then grouped into basic   *)
(* blocks with their outgoing edges.  One step is one instruction or one   *)
(* leader.                                                                 *)
(*                                                                         *)
(* What the bytes of the code are is open: a step decodes any instruction  *)
(* that the decoder knows.  Of an instruction the model keeps its length   *)
(* and where control goes.                                                 *)
(***************************************************************************)
EXTENDS Word, Sequences, FiniteSets

CONSTANTS
    Decoders,           \* the decoders, see the operators below
    Starts,             \* the addresses of code
    Size,               \* the bytes of the code
    MaxInstructions     \* limits_.max_disassembly_instructions

\* A decoder: the shapes of its instructions, and whether it refuses bytes
\* that are long enough.  A shape is a length and what becomes of control.
IsDecoder(d) ==
    /\ d.refuses \in BOOLEAN
    /\ \A shape \in d.shapes :
          /\ shape.size \in Nat \ {0}
          /\ shape.jumps \in BOOLEAN /\ shape.branch \in BOOLEAN
          /\ shape.call \in BOOLEAN /\ shape.terminal \in BOOLEAN
          /\ shape.call => ~shape.terminal

ASSUME CodeAssumption ==
    /\ \A d \in Decoders : IsDecoder(d)
    /\ Starts \subseteq Word
    /\ Size \in Nat /\ MaxInstructions \in Nat

VARIABLES
    decoder,                \* the decoder of the call
    code_stage,             \* "decoding", "grouping" or "returned"
    code_error,
    start,          \* report.start
    offset,         \* the bytes decoded
    instructions,   \* report.instructions
    leader,         \* the leaders below it are grouped
    blocks          \* report.blocks

code_vars ==
    <<decoder, code_stage, code_error, start, offset, instructions, leader, blocks>>

-----------------------------------------------------------------------------
(* The decoders.                                                           *)

Shape(size, effects) ==
    [size     |-> size,
     jumps    |-> "target" \in effects,     \* target has a value
     branch   |-> "branch" \in effects,
     call     |-> "call" \in effects,
     terminal |-> "terminal" \in effects]

Jump == {"branch", "target"}
Goto == Jump \cup {"terminal"}
Call == Jump \cup {"call"}
CallRegister == {"branch", "call"}

\* near is the length of the jumps and calls with a long displacement: 5.
X86Decoder(near) ==
    [refuses |-> FALSE,
     shapes  |-> {Shape(1, {}), Shape(1, {"terminal"}), Shape(2, Jump), Shape(2, Goto),
                  Shape(near, Call), Shape(near, Goto)}]

\* br leads to a register, and blr comes back from one.
Arm64Decoder(width) ==
    [refuses |-> FALSE,
     shapes  |-> {Shape(width, e) : e \in {{}, {"terminal"}, {"branch", "terminal"},
                                          CallRegister, Goto, Call, Jump}}]

\* jalr leads to a register and comes back when it links.  Without compressed
\* instructions the decoder refuses the bytes of one.
RiscVDecoder(half, compressed) ==
    [refuses |-> ~compressed,
     shapes  |->
        {Shape(2 * half, e) : e \in {{}, {"terminal"}, Call, Goto, CallRegister,
                                     {"branch"}, Jump}}
        \cup {Shape(half, e) : e \in IF compressed
                                     THEN {{}, Goto, CallRegister, {"terminal"}} ELSE {}}]

\* The instructions of a shape at an address: jumps may lead anywhere.
Decodable(shape, address) ==
    {[address |-> address, size |-> shape.size, target |-> target,
      branch |-> shape.branch, call |-> shape.call, terminal |-> shape.terminal] :
     target \in IF shape.jumps THEN {{t} : t \in Word} ELSE {{}}}

-----------------------------------------------------------------------------
(* The call.                                                               *)

CodeInit ==
    /\ decoder \in Decoders
    /\ code_stage = "decoding"
    /\ code_error = "none"
    /\ start \in Starts
    /\ offset = 0
    /\ instructions = <<>>
    /\ leader = 0
    /\ blocks = <<>>

\* Lengths that analyze refuses come from no decoder of the program: one that
\* does not find the bytes of an instruction, or refuses them, fails.
More == offset < Size /\ Len(instructions) < MaxInstructions

Overflow ==
    /\ code_error' = "address_overflow"
    /\ code_stage' = "returned"
    /\ UNCHANGED <<decoder, start, offset, instructions, leader, blocks>>

DecodeOne ==
    /\ code_stage = "decoding"
    /\ More
    /\ \/ ~AddFits(start, offset) /\ Overflow
       \/ /\ AddFits(start, offset)
          /\ \/ \E shape \in decoder.shapes :
                   /\ shape.size <= Size - offset
                   /\ offset' = offset + shape.size
                   /\ \E i \in Decodable(shape, start + offset) :
                         instructions' = Append(instructions, i)
                   /\ UNCHANGED code_stage
             \/ /\ \/ decoder.refuses
                   \/ \E shape \in decoder.shapes : shape.size > Size - offset
                /\ code_stage' = "grouping"
                /\ UNCHANGED <<offset, instructions>>
          /\ UNCHANGED <<decoder, code_error, start, leader, blocks>>

\* All the code is decoded, or as much as the limit allows.
StopDecoding ==
    /\ code_stage = "decoding"
    /\ ~More
    /\ code_stage' = "grouping"
    /\ UNCHANGED <<decoder, code_error, start, offset, instructions, leader, blocks>>

-----------------------------------------------------------------------------
(* Basic blocks.                                                           *)

End == start + offset
Following(i) == i.address + i.size
Addresses == {instructions[n].address : n \in DOMAIN instructions}

\* The targets that the first loop enters are among those of the second.
Leaders ==
    {start}
    \cup {t \in start..(End - 1) :
             \E n \in DOMAIN instructions : t \in instructions[n].target}
    \cup {Following(instructions[n]) : n \in {n \in DOMAIN instructions :
             instructions[n].branch /\ ~instructions[n].terminal}}

Least(addresses) == CHOOSE a \in addresses : \A b \in addresses : a <= b

\* The rest of ordered_leaders, and the leader after one.
Ahead == {l \in Leaders : l >= leader}
NextLeader(l) ==
    LET later == {m \in Leaders : m > l}
    IN  IF later = {} THEN End ELSE Least(later)

EndsBlock(i) == i.branch \/ i.terminal

\* A bug in LastOf: a block does not end where the next one begins.
LastOfBranches(first, next_leader) ==
    CHOOSE n \in first..Len(instructions) :
        /\ EndsBlock(instructions[n]) \/ n = Len(instructions)
        /\ \A m \in first..(n - 1) : ~EndsBlock(instructions[m])

\* The last instruction of the block that begins with instruction first: one
\* that ends a block, or the last one before the next leader.
LastOf(first, next_leader) ==
    CHOOSE n \in first..Len(instructions) :
        /\ \/ EndsBlock(instructions[n])
           \/ n = Len(instructions)
           \/ instructions[n + 1].address >= next_leader
        /\ \A m \in first..(n - 1) :
                /\ ~EndsBlock(instructions[m])
                /\ instructions[m + 1].address < next_leader

\* A bug in Outgoing: a block that ends because the next begins has no edge.
OutgoingOfBranches(first, last, next_leader) ==
    LET i == instructions[last] IN
    (UNION {instructions[n].target : n \in first..last})
    \cup {t \in {Following(i)} : EndsBlock(i) /\ (~i.terminal \/ i.call)}

\* The targets of the block's edges.
Outgoing(first, last, next_leader) ==
    LET i == instructions[last] IN
    (UNION {instructions[n].target : n \in first..last})
    \cup {t \in {Following(i)} : EndsBlock(i) /\ (~i.terminal \/ i.call)}
    \cup {t \in {Following(i)} : ~EndsBlock(i) /\ t = next_leader}

BlockAt(first, next_leader) ==
    LET last == LastOf(first, next_leader) IN
    [begin    |-> instructions[first].address,
     end      |-> Following(instructions[last]),
     count    |-> last - first + 1,
     complete |-> EndsBlock(instructions[last]),
     outgoing |-> Outgoing(first, last, next_leader)]

\* The end of what was decoded is an address; the ends of the instructions
\* and of the blocks are not beyond it.
BeginGrouping ==
    /\ code_stage = "grouping"
    /\ ~AddFits(start, offset)
    /\ Overflow

\* One turn of the loop over the leaders; one that is no instruction is
\* skipped.
GroupLeader ==
    LET l == Least(Ahead) IN
    /\ code_stage = "grouping"
    /\ AddFits(start, offset)
    /\ Ahead # {}
    /\ leader' = l + 1
    /\ \/ \E n \in DOMAIN instructions :
             /\ instructions[n].address = l
             /\ blocks' = Append(blocks, BlockAt(n, NextLeader(l)))
       \/ /\ l \notin Addresses
          /\ UNCHANGED blocks
    /\ UNCHANGED <<decoder, code_stage, code_error, start, offset, instructions>>

ReturnReport ==
    /\ code_stage = "grouping"
    /\ AddFits(start, offset)
    /\ Ahead = {}
    /\ code_stage' = "returned"
    /\ UNCHANGED <<decoder, code_error, start, offset, instructions, leader, blocks>>

\* The next call.
AnalyzeAgain ==
    /\ code_stage = "returned"
    /\ code_stage' = "decoding"
    /\ code_error' = "none"
    /\ decoder' \in Decoders
    /\ start' \in Starts
    /\ offset' = 0
    /\ instructions' = <<>>
    /\ leader' = 0
    /\ blocks' = <<>>

CodeNext == \/ DecodeOne \/ StopDecoding \/ BeginGrouping \/ GroupLeader \/ ReturnReport
        \/ AnalyzeAgain

CodeSpec == CodeInit /\ [][CodeNext]_code_vars

-----------------------------------------------------------------------------
(* What the report promises.                                               *)

ReportMade == code_stage = "returned" /\ code_error = "none"

\* The block is the run of instructions first to last.
IsRun(block, first, last) ==
    /\ block.begin = instructions[first].address
    /\ block.end = Following(instructions[last])
    /\ block.count = last - first + 1
    /\ block.complete <=> EndsBlock(instructions[last])

\* Instruction n is in a block.
InBlock(n) ==
    \E b \in DOMAIN blocks : instructions[n].address \in blocks[b].begin..(blocks[b].end - 1)

IsTarget(a) == \E n \in DOMAIN instructions : a \in instructions[n].target

\* Basic blocks are runs of whole instructions that share none, are entered at
\* the first and left at the last: no jump leads to another instruction of the
\* run, and none but the last is a jump or ends the control flow.
BlocksAreBasic ==
    ReportMade =>
    /\ \A b \in DOMAIN blocks :
          \E first, last \in DOMAIN instructions :
             /\ first <= last /\ IsRun(blocks[b], first, last)
             /\ \A n \in first..last :
                   /\ EndsBlock(instructions[n]) => n = last
                   /\ IsTarget(instructions[n].address) => n = first
    /\ \A b, c \in DOMAIN blocks : b < c => blocks[b].end <= blocks[c].begin

\* A jump leads into the middle of instruction n.
IsSplit(n) ==
    \E t \in (instructions[n].address + 1)..(Following(instructions[n]) - 1) : IsTarget(t)

\* Control goes on behind instruction n: it comes back from calls.
FallsThrough(n) == ~instructions[n].terminal

\* The blocks and their edges are the control flow.  An instruction is in a
\* block exactly if it is the first, a jump leads to it, or control falls
\* through to it from a jump or from an instruction of a block that no jump
\* leads into.  From a block lead the jumps of its instructions, and an edge to
\* the end of it under the same conditions; there is no other edge.  Edges
\* that lead to an instruction lead to the first one of a block.
ControlFlowIsCovered ==
    ReportMade =>
    /\ \A n \in DOMAIN instructions :
          InBlock(n) <=>
             \/ n = 1 \/ IsTarget(instructions[n].address)
             \/ /\ FallsThrough(n - 1)
                /\ instructions[n - 1].branch \/ (InBlock(n - 1) /\ ~IsSplit(n - 1))
    /\ \A b \in DOMAIN blocks :
          /\ \E first, last \in DOMAIN instructions :
                /\ IsRun(blocks[b], first, last)
                /\ blocks[b].outgoing =
                      (UNION {instructions[n].target : n \in first..last})
                      \cup {t \in {blocks[b].end} :
                              FallsThrough(last) /\ (instructions[last].branch \/ ~IsSplit(last))}
          /\ \A t \in blocks[b].outgoing \cap Addresses :
                \E c \in DOMAIN blocks : blocks[c].begin = t
===============================================================================
