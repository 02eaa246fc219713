----------------------------- MODULE MCTranslator -----------------------------
(* Programs for Translator: every one of three instructions from a set that  *)
(* has each way of touching flags, and every function against every          *)
(* condition, with all operands.                                             *)
EXTENDS Translator

I(op, fn, cond, mem) == [op |-> op, fn |-> fn, cc |-> cond, mem |-> mem]

Core == { I("alu", "sub", 0, FALSE), I("alu", "sub", 0, TRUE), I("alu", "cmp", 0, FALSE),
          I("incdec", "add", 0, TRUE), I("shift", "shl", 0, FALSE),
          I("setcc", "", 12, FALSE), I("store", "", 0, FALSE), I("load", "", 0, FALSE),
          I("carry", "add", 0, TRUE), I("xchg", "", 0, TRUE),
          I("jcc", "", 4, FALSE), I("jmp", "", 0, FALSE) }

Triples == { << a, b, c >> : a \in Core, b \in Core, c \in Core }

(* Four instructions, one more than a block holds, of the kinds that leave a *)
(* block early and those that make flags matter when it is.                  *)
Corner == { I("alu", "sub", 0, TRUE), I("alu", "cmp", 0, FALSE), I("store", "", 0, FALSE),
            I("setcc", "", 12, FALSE), I("jcc", "", 4, FALSE), I("xchg", "", 0, TRUE) }

Quads == { << a, b, c, d >> : a \in Corner, b \in Corner, c \in Corner, d \in Corner }

Readers == { I("jcc", "", cond, FALSE) : cond \in Conds } \cup { I("setcc", "", 12, TRUE) }

Writers == { I("alu", fn, 0, FALSE) : fn \in AluFns }
           \cup { I("incdec", fn, 0, FALSE) : fn \in {"add", "sub"} }
           \cup { I("carry", fn, 0, FALSE) : fn \in {"add", "sub"} }
           \cup { I("shift", fn, 0, FALSE) : fn \in Shifts }
           \cup { I("rotate", fn, 0, TRUE) : fn \in Rotates }
           \cup { I("neg", "", 0, FALSE), I("imul", "", 0, FALSE) }

Pairs == { << w, r >> : w \in Writers, r \in Readers }

(* Zero and one, and the ends of both ranges.                                *)
Operands == {0, 1, Size \div 2 - 1, Size \div 2, Size - 1}

MCGuests ==
    [code: Triples, x: {2}, y: {1}] \cup [code: Triples, x: {1}, y: {1}]
    \cup [code: Quads, x: {2}, y: {1}]
    \cup [code: Pairs, x: Operands, y: Operands]

(* A comparison of equals is pending, or none.                               *)
MCPendings == { [kind |-> 2, a |-> 1, b |-> 1] }

(* For the run that lets a block be left anywhere: SUB [m], y and a jump on  *)
(* what it leaves, behind instructions that do or do not set flags.          *)
MCSubThenJump ==
    [code: { << a, I("alu", "sub", 0, TRUE), I("jcc", "", 4, FALSE) >> : a \in Core },
     x: {2}, y: {1}]
===============================================================================
