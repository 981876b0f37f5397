------------------------------ MODULE AbiCheck -------------------------------
(***************************************************************************)
(* The comparison of the C header with the prototypes that the Python and   *)
(* the TypeScript binding declare, as tools/wiki/generate.py makes it: both *)
(* sides are mapped to shapes, and the lists of shapes must be equal.       *)
(*                                                                         *)
(* A C type is a base and a number of stars.  A prototype is a name, a      *)
(* result and the list of its arguments.                                    *)
(***************************************************************************)
EXTENDS Integers, Sequences, FiniteSets

C(base, depth) == [base |-> base, depth |-> depth]
CType == [base : STRING, depth : Nat]

\* The prototypes a side declares, their types written in T.
Prototypes(T) == Seq([name : STRING, kind : STRING, result : T, args : Seq(T)])
Unsupported == "unsupported"     \* the generator stops

-----------------------------------------------------------------------------
(* The shapes of a type of the header *)

ScalarShape ==
    [void |-> "void", int |-> "int", uint32_t |-> "u32", int64_t |-> "i64",
     longlong |-> "i64", uint64_t |-> "u64", float |-> "f32", double |-> "f64",
     long |-> "long", size_t |-> "usize", uintptr_t |-> "usize"]

PointerShape ==
    [size_t |-> "size_ptr", uint64_t |-> "u64_ptr", long |-> "long_ptr",
     longlong |-> "i64_ptr", int64_t |-> "i64_ptr", int |-> "int_ptr",
     double |-> "f64_ptr", float |-> "f32_ptr"]

Struct == {"ZfColInfo", "ZfHeaderEntryV1"}       \* and the others alike
Handle == {"ZfFits", "ZfTable"}                  \* and the others alike
Opaque == Handle \cup {"void", "ZfOpenOpts"}

\* Where a type stands: the result, the first argument of zf_free, a byte
\* argument of a fingerprint function, or anywhere else.
Position == {"result", "free", "fingerprint", "argument"}

\* The shape of one star and of two; more are not supported (the mutant counts the
\* stars no further than one).
StarsUncounted(one, two, depth) == one
Stars(one, two, depth) ==
    IF depth = 1 THEN one ELSE IF depth = 2 THEN two ELSE Unsupported

HeaderToPython(t, pos) ==
    IF t.depth = 0
    THEN IF t.base \in DOMAIN ScalarShape THEN ScalarShape[t.base] ELSE Unsupported
    ELSE IF pos = "result" /\ t = C("char", 1) THEN "cstring_ret"
    ELSE IF pos = "free" \/ (pos = "fingerprint" /\ t = C("uint8_t", 1)) THEN "void_ptr"
    ELSE IF t.base = "char"    THEN Stars("char_ptr", "char_ptr_ptr", t.depth)
    ELSE IF t.base = "uint8_t" THEN Stars("char_ptr", "void_ptr_ptr", t.depth)
    ELSE IF t.depth = 1 /\ t.base \in Struct THEN t.base
    ELSE IF t.base \in Opaque  THEN Stars("void_ptr", "void_ptr_ptr", t.depth)
    ELSE IF t.depth = 1 /\ t.base \in DOMAIN PointerShape THEN PointerShape[t.base]
    ELSE Unsupported

HeaderToTypeScript(t, pos) ==
    IF t.depth = 0
    THEN IF t.base \in DOMAIN ScalarShape THEN ScalarShape[t.base] ELSE Unsupported
    ELSE IF pos = "result" /\ t = C("char", 1) THEN "cstring_ret"
    ELSE IF pos = "free" \/ (t.base \in Handle /\ t.depth = 1) THEN "handle"
    ELSE IF t.base = "char" THEN IF t.depth = 1 THEN "cstr"
                                 ELSE IF t.depth = 2 THEN "cstr_arr" ELSE "buf"
    ELSE "buf"

-----------------------------------------------------------------------------
(* The shapes of what the bindings declare *)

CtypesShape ==
    [None |-> "void", INT |-> "int", U32 |-> "u32", I64 |-> "i64", LL |-> "i64",
     U64 |-> "u64", FLT |-> "f32", DBL |-> "f64", LONG |-> "long", SZ |-> "usize",
     CHARP |-> "char_ptr", VOID |-> "void_ptr", PVOID |-> "void_ptr_ptr",
     PSZ |-> "size_ptr", PU64 |-> "u64_ptr", PLONG |-> "long_ptr",
     PINT |-> "int_ptr", PLL |-> "i64_ptr", PDBL |-> "f64_ptr",
     PCHARP |-> "char_ptr_ptr", ZfColInfo |-> "ZfColInfo",
     ZfHeaderEntryV1 |-> "ZfHeaderEntryV1"]

PythonShape(name, pos) ==
    IF pos = "result" /\ name = "CHARP" THEN "cstring_ret"
    ELSE IF name \in DOMAIN CtypesShape THEN CtypesShape[name] ELSE Unsupported

TypeScriptShapes ==
    {"void", "int", "u32", "i64", "u64", "f32", "f64", "long", "usize",
     "handle", "buf", "cstr", "cstr_arr", "cstring_ret"}
TypeScriptShape(name) == IF name \in TypeScriptShapes THEN name ELSE Unsupported

-----------------------------------------------------------------------------
(* The lists *)

\* The position of argument i of a function.
ArgumentOf(f, i) == IF f.kind = "free" /\ i = 1 THEN "free"
                    ELSE IF f.kind = "fingerprint" THEN "fingerprint" ELSE "argument"

\* The four lists: the header as each binding should declare it, and what they declare.
ShapeOf(list, t, pos) ==
    CASE list = "for python"     -> HeaderToPython(t, pos)
      [] list = "for typescript" -> HeaderToTypeScript(t, pos)
      [] list = "python"         -> PythonShape(t, pos)
      [] list = "typescript"     -> TypeScriptShape(t)

Shaped(list, f) ==
    <<f.name, ShapeOf(list, f.result, "result")>>
    \o [i \in 1 .. Len(f.args) |-> ShapeOf(list, f.args[i], ArgumentOf(f, i))]

Shapes(list, fs) == [n \in 1 .. Len(fs) |-> Shaped(list, fs[n])]

Supported(shapes) ==
    \A n \in 1 .. Len(shapes) : \A i \in 1 .. Len(shapes[n]) : shapes[n][i] # Unsupported

\* A header the generator can read names every function once.
Unambiguous(fs) == fs # <<>> /\ Cardinality({fs[n].name : n \in 1 .. Len(fs)}) = Len(fs)

\* The lists are equal, prototype by prototype and in the same order.
AbiEqual(expected, actual) ==
    Supported(expected) /\ Supported(actual) /\ expected = actual

AbiMatches(header, python, typescript) ==
    /\ Unambiguous(header)
    /\ AbiEqual(Shapes("for python", header), Shapes("python", python))
    /\ AbiEqual(Shapes("for typescript", header), Shapes("typescript", typescript))

-----------------------------------------------------------------------------
(* What the types mean to the machine, written down without regard to shapes *)

Width ==
    [int |-> <<"signed", "32">>, uint32_t |-> <<"unsigned", "32">>,
     int64_t |-> <<"signed", "64">>, longlong |-> <<"signed", "64">>,
     uint64_t |-> <<"unsigned", "64">>, float |-> <<"float", "32">>,
     double |-> <<"float", "64">>, long |-> <<"signed", "long">>,
     size_t |-> <<"unsigned", "pointer">>, uintptr_t |-> <<"unsigned", "pointer">>,
     char |-> <<"byte", "8">>, uint8_t |-> <<"byte", "8">>]

\* The C type behind each name of the Python binding.
CtypesMeaning ==
    [None |-> C("void", 0), INT |-> C("int", 0), U32 |-> C("uint32_t", 0),
     I64 |-> C("int64_t", 0), LL |-> C("longlong", 0), U64 |-> C("uint64_t", 0),
     FLT |-> C("float", 0), DBL |-> C("double", 0), LONG |-> C("long", 0),
     SZ |-> C("size_t", 0), CHARP |-> C("char", 1), VOID |-> C("void", 1),
     PVOID |-> C("void", 2), PSZ |-> C("size_t", 1), PU64 |-> C("uint64_t", 1),
     PLONG |-> C("long", 1), PINT |-> C("int", 1), PLL |-> C("longlong", 1),
     PDBL |-> C("double", 1), PCHARP |-> C("char", 2),
     ZfColInfo |-> C("ZfColInfo", 1), ZfHeaderEntryV1 |-> C("ZfHeaderEntryV1", 1)]

\* The C type behind each neutral type of the TypeScript binding: its buffers and handles
\* are addresses of no particular type.
NeutralMeaning ==
    [void |-> C("void", 0), int |-> C("int", 0), u32 |-> C("uint32_t", 0),
     i64 |-> C("int64_t", 0), u64 |-> C("uint64_t", 0), f32 |-> C("float", 0),
     f64 |-> C("double", 0), long |-> C("long", 0), usize |-> C("size_t", 0),
     handle |-> C("void", 1), buf |-> C("void", 1), cstr |-> C("char", 1),
     cstr_arr |-> C("char", 2), cstring_ret |-> C("char", 1)]

Same(a, b) == a = b \/ (a \in DOMAIN Width /\ b \in DOMAIN Width /\ Width[a] = Width[b])

\* A call through the one type passes what the other expects: the same scalar, or
\* a pointer to the same thing where neither side has given up saying to what.
Compatible(t, u) ==
    \/ t.depth = u.depth /\ Same(t.base, u.base)
    \/ t.depth >= 1 /\ u = C("void", 1)
    \/ t.depth = 2 /\ u = C("void", 2)

CTypes == {C(b, d) : b \in DOMAIN ScalarShape \cup {"char", "uint8_t"} \cup Struct \cup Opaque,
                     d \in 0 .. 3}

\* Where the shapes agree a call is compatible: no drift hides behind a shape that stands
\* for several types.  A byte that is passed as a character is the one width all platforms
\* give both.
ShapesSpeak ==
    \A t \in CTypes, pos \in Position :
       /\ \A name \in DOMAIN CtypesMeaning :
             HeaderToPython(t, pos) = PythonShape(name, pos) /\ PythonShape(name, pos) # Unsupported
                => Compatible(t, CtypesMeaning[name])
       /\ \A name \in TypeScriptShapes :
             HeaderToTypeScript(t, pos) = TypeScriptShape(name)
                => Compatible(t, NeutralMeaning[name])

\* A call through the prototype f of a binding, whose names of types mean what `meaning`
\* says, passes what the function g of the header expects.
Callable(meaning, f, g) ==
    /\ f.name = g.name /\ Len(f.args) = Len(g.args)
    /\ Compatible(g.result, meaning[f.result])
    /\ \A i \in 1 .. Len(g.args) : Compatible(g.args[i], meaning[f.args[i]])
AllCallable(meaning, binding, header) ==
    /\ Len(binding) = Len(header)
    /\ \A n \in 1 .. Len(header) : Callable(meaning, binding[n], header[n])

\* What both bindings declare can be called.
BindingsCall(abi) ==
    /\ AllCallable(CtypesMeaning, abi.python, abi.header)
    /\ AllCallable(NeutralMeaning, abi.typescript, abi.header)
=============================================================================
