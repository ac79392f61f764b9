----------------------------- MODULE MCMachine -----------------------------
(***************************************************************************)
(* Small programs that between them use every instruction, started with    *)
(* boundary values, in both rings and with a data page that is ready,      *)
(* copy-on-write or absent.  Page 0 holds the code, pages 1 and 2 data,    *)
(* page 3 the stack; a byte has two bits, so a word has sixteen.           *)
(***************************************************************************)
EXTENDS Machine

CONSTANT Boundary   \* the values RAX and RBX start with

rax == Reg(RAX, "QWORD")
rbx == Reg(RBX, "QWORD")
rcx == Reg(RCX, "QWORD")
At(address, size) == AbsoluteMem(address, size)

\* A QWORD at 28 lies on pages 1 and 2.
AluProgram == <<Make("ADD", rax, rbx), Make("SUB", rbx, rax), Make("INC", rax, None),
                Make("DEC", rbx, None), Make("CMP", rax, rbx), MakeCc("JCC", "L", Imm(7), None),
                MakeCc("SETCC", "G", Reg(RAX, "BYTE"), None), Make("HLT", None, None)>>
LogicProgram == <<Make("AND", rax, rbx), Make("OR", rbx, Imm(5)), Make("XOR", rax, rbx),
                  Make("TEST", rax, rbx), MakeCc("JE", "E", Imm(6), None),
                  MakeCc("CMOVCC", "NE", rcx, rax), Make("MOVSX", rax, Reg(RBX, "BYTE")),
                  Make("MOVZX", rbx, At(18, "WORD")), Make("LEA", rcx, Mem(RAX, RBX, 2, 4, "QWORD")),
                  Make("MOV", Reg(RBX, "DWORD"), rax), Make("MFENCE", None, None),
                  Make("JMP", Imm(99), None)>>
StackProgram == <<Make("PUSH", rax, None), Make("CALL", Imm(4), None), Make("POP", rbx, None),
                  MakeCc("JNE", "NE", Imm(0), None), Make("INC", rax, None), Make("RET", None, None)>>
StoreProgram == <<Make("MOV", At(28, "QWORD"), rax), Make("ADD", At(32, "QWORD"), rbx),
                  Make("CMPXCHG", At(32, "QWORD"), rbx), Make("MOV", rbx, At(28, "QWORD")),
                  Make("MOV", At(0, "BYTE"), rax), Make("HLT", None, None)>>
AtomicProgram == <<MakeLocked("XADD", At(32, "QWORD"), rax, TRUE), Make("PUSH", rax, None),
                   Make("POP", At(40, "QWORD"), None), MakeLocked("CMPXCHG", At(16, "QWORD"), rbx, TRUE),
                   Make("PUSH", At(62, "QWORD"), None), Make("HLT", None, None)>>
TrapProgram == <<Make("SYSCALL", None, None), Make("INT", Imm(3), None),
                 Make("INVLPG", At(16, "BYTE"), None), Make("INT", Imm(9), None),
                 Make("SYSRET", None, None), Make("IRET", None, None)>>
\* The words 32767 and 32768 are no canonical addresses, as the RSP or the RIP to
\* return to and as the address of a load.
CanonicalProgram == <<Make("MOV", Reg(RSP, "QWORD"), rax), Make("SYSCALL", None, None),
                      Make("MOV", rcx, Mem(RBX, NoReg, 1, 0, "WORD")), Make("HLT", None, None),
                      Make("MOV", rcx, rbx), Make("SYSRET", None, None)>>

AllPrograms == {AluProgram, LogicProgram, StackProgram, StoreProgram, AtomicProgram, TrapProgram,
                CanonicalProgram}

AllRegs == {[r \in Registers |->
               CASE r = RAX -> a [] r = RBX -> c [] r = RSP -> 64 [] OTHER -> 0] :
              a \in Boundary, c \in Boundary}

Code == [present |-> TRUE, writable |-> FALSE, user |-> TRUE, executable |-> TRUE, lazy |-> FALSE]
Data == [present |-> TRUE, writable |-> TRUE, user |-> TRUE, executable |-> FALSE, lazy |-> TRUE]
DataPages == {Data, [Data EXCEPT !.writable = FALSE], [Data EXCEPT !.present = FALSE],
              [Data EXCEPT !.user = FALSE]}

AllPages == {<<Code, Data, second, stack>> :
               second \in DataPages, stack \in {Data, [Data EXCEPT !.present = FALSE]}}
PageTables == {[p \in 0 .. 3 |-> t[p + 1]] : t \in AllPages}

AllGates == [v \in {3, 13, 14} |->
               [present |-> TRUE, trap |-> v = 3, ring |-> 0,
                rip |-> IF v = 14 THEN 100 ELSE 5]]
KernelSyscall == [enabled |-> TRUE, rip |-> 4, mask |-> {"IF"}]
=============================================================================
