---------------------------- MODULE MCInstructions ----------------------------
(* Samples for InstructionLaws, over operands of 4 bits, bytes of 2 in the   *)
(* packed registers and of 1 in the general ones.                            *)
EXTENDS InstructionLaws

(* kAesSbox.                                                                 *)
SboxTable == <<
    99, 124, 119, 123, 242, 107, 111, 197, 48, 1, 103, 43, 254, 215, 171, 118,
    202, 130, 201, 125, 250, 89, 71, 240, 173, 212, 162, 175, 156, 164, 114, 192,
    183, 253, 147, 38, 54, 63, 247, 204, 52, 165, 229, 241, 113, 216, 49, 21,
    4, 199, 35, 195, 24, 150, 5, 154, 7, 18, 128, 226, 235, 39, 178, 117,
    9, 131, 44, 26, 27, 110, 90, 160, 82, 59, 214, 179, 41, 227, 47, 132,
    83, 209, 0, 237, 32, 252, 177, 91, 106, 203, 190, 57, 74, 76, 88, 207,
    208, 239, 170, 251, 67, 77, 51, 133, 69, 249, 2, 127, 80, 60, 159, 168,
    81, 163, 64, 143, 146, 157, 56, 245, 188, 182, 218, 33, 16, 255, 243, 210,
    205, 12, 19, 236, 95, 151, 68, 23, 196, 167, 126, 61, 100, 93, 25, 115,
    96, 129, 79, 220, 34, 42, 144, 136, 70, 238, 184, 20, 222, 94, 11, 219,
    224, 50, 58, 10, 73, 6, 36, 92, 194, 211, 172, 98, 145, 149, 228, 121,
    231, 200, 55, 109, 141, 213, 78, 169, 108, 86, 244, 234, 101, 122, 174, 8,
    186, 120, 37, 46, 28, 166, 180, 198, 232, 221, 116, 31, 75, 189, 139, 138,
    112, 62, 181, 102, 72, 3, 246, 14, 97, 53, 87, 185, 134, 193, 29, 158,
    225, 248, 152, 17, 105, 217, 142, 148, 155, 30, 135, 233, 206, 85, 40, 223,
    140, 161, 137, 13, 191, 230, 66, 104, 65, 153, 45, 15, 176, 84, 187, 22 >>
MCSbox == [v \in 0 .. 255 |-> SboxTable[v + 1]]

Ints == [kind: {"ints"}, a: Values, b: Values]

BitMemories == { [w \in -2 .. 1 |-> IF w = hole THEN 6 ELSE fill] : hole \in -2 .. 1, fill \in {0, 9, 15} }
BitSamples  == [kind: {"bits"}, offset: Values, mem: BitMemories]

Strings == [kind: {"string"}, down: BOOLEAN, mem: [0 .. 3 -> 0 .. 1] \cup {[i \in 0 .. 4 |-> i]}]

Regs   == [kind: {"regs"}, x: {0, 1, 90, 128, 165, 255}, y: Word]
Flags  == [kind: {"flags"}, f: SUBSET Settable]
Stacks == [kind: {"stack"},
           m: { [r |-> [i \in Names |-> IF i = RSP THEN sp ELSE IF i = RBP THEN bp ELSE 20 + i],
                 rip |-> 7, mem |-> [i \in 0 .. 9 |-> 30 + i]] : sp \in 0 .. 9, bp \in 0 .. 9 }]

(* Vectors that run through all bytes, and some that repeat.                 *)
Vector(x, y, z) == [n \in At |-> (x * n * n + y * n + z + (n \div 5)) % Byte]
Vectors == { Vector(x, y, z) : x \in {0, 1, 3}, y \in 0 .. 1, z \in {0, 3} }
Packed  == [kind: {"packed"}, a: Vectors, b: Vectors \cup {Zero, AllOnes, Bias(1)}]

Quarters == -19 .. 19
MCNaN    == 1000
Floats   == [kind: {"float"}, x: Quarters \cup {NaN}, y: {-5, -4, 0, 3, 4, NaN}]

Clmuls == [kind: {"clmul"}, a: 0 .. 15, b: 0 .. 15]

Block(s) == [n \in At |-> s[n + 1]]
(* FIPS-197, appendices B and C.1; the block already has the first key.     *)
Aes == { [kind |-> "aes", round |-> 0, key |-> Block(v[1]), block |-> XorBytes(Block(v[1]), Block(v[2])),
          cipher |-> Block(v[3])] : v \in {
    << << 43, 126, 21, 22, 40, 174, 210, 166, 171, 247, 21, 136, 9, 207, 79, 60 >>,
       << 50, 67, 246, 168, 136, 90, 48, 141, 49, 49, 152, 162, 224, 55, 7, 52 >>,
       << 57, 37, 132, 29, 2, 220, 9, 251, 220, 17, 133, 151, 25, 106, 11, 50 >> >>,
    << << 0, 1, 2, 3, 4, 5, 6, 7, 8, 9, 10, 11, 12, 13, 14, 15 >>,
       << 0, 17, 34, 51, 68, 85, 102, 119, 136, 153, 170, 187, 204, 221, 238, 255 >>,
       << 105, 196, 224, 216, 106, 123, 4, 48, 216, 205, 183, 128, 112, 180, 197, 90 >> >> } }

MCSamples == Ints \cup BitSamples \cup Strings \cup Regs \cup Flags \cup Stacks
             \cup Packed \cup Floats \cup Clmuls \cup Aes \cup {[kind |-> "x87"]}
===============================================================================
