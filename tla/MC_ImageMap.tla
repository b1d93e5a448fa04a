------------------------------ MODULE MC_ImageMap ------------------------------
(***************************************************************************)
(* A 4-byte address space.  One plain file; a 32-bit Arm shared object     *)
(* with a Thumb symbol, a mapping symbol and a non-executable segment; a   *)
(* stripped AArch64 executable whose symbols come from objdump -T and     *)
(* whose code segment is longer in memory than in the file; a            *)
(* kernel module with one executable section; an unsorted kallsyms-style  *)
(* listing naming f again.  Four calls: enough to add two sources of      *)
(* symbols and look up between them, or map, write and read back.         *)
(***************************************************************************)
EXTENDS ImageMap

MC_Names == {"f", "g", "$x", ""}
MC_Elves ==
  { [etype |-> "DYN", machine |-> "ARM",
     nm |-> << [undef |-> FALSE, addr |-> 3, name |-> "f"],
               [undef |-> FALSE, addr |-> 0, name |-> "$x"],
               [undef |-> FALSE, addr |-> 0, name |-> "g"] >>,
     dyn |-> << >>,
     segs |-> << [type |-> "LOAD", x |-> TRUE, huge |-> FALSE, vaddr |-> 0, memsz |-> 2, bytes |-> <<1, 1>>],
                 [type |-> "LOAD", x |-> FALSE, huge |-> FALSE, vaddr |-> 2, memsz |-> 1, bytes |-> <<0>>] >>,
     secs |-> << >>],
    [etype |-> "EXEC", machine |-> "AARCH64",
     nm |-> << [undef |-> TRUE, addr |-> 0, name |-> "g"] >>,
     dyn |-> << [addr |-> 2, name |-> "g"] >>,
     segs |-> << [type |-> "LOAD", x |-> TRUE, huge |-> FALSE, vaddr |-> 1, memsz |-> 3, bytes |-> <<0, 1>>] >>,
     secs |-> << >>],
    [etype |-> "REL", machine |-> "AARCH64",
     nm |-> << [undef |-> FALSE, addr |-> 1, name |-> "g"] >>,
     dyn |-> << >>, segs |-> << >>,
     secs |-> << [alloc |-> TRUE, progbits |-> TRUE, exec |-> TRUE] >>] }
MC_BinFiles  == {<<1, 0, 1>>}
MC_WriteData == {<<0>>, <<0, 0>>}
MC_NmLists == { << [undef |-> FALSE, addr |-> 2, name |-> "f"],
                   [undef |-> FALSE, addr |-> 1, name |-> ""],
                   [undef |-> FALSE, addr |-> 2, name |-> "g"] >> }

=============================================================================
