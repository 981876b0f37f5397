---------------------------- MODULE ColumnFormat ----------------------------
(***************************************************************************)
(* The format a table column is read as and written in by the Python binding *)
(* (bindings/python/src/zigfitsio/core.py, _dtypes.py): _column_plan chooses  *)
(* the NumPy field a column of the file becomes, _binary_tform_for and the    *)
(* detached branch of _emit_columns the format a field is saved in, and       *)
(* _unsigned_col_tzero the TZERO that goes with it.                           *)
(*                                                                           *)
(* A format is a type letter and a repeat count (for "A", the width); a field *)
(* is an element type, a count and, for text, a width.  Of TZERO the module   *)
(* keeps which convention it says: none, that of the unsigned integers of a   *)
(* width, or other.                                                           *)
(***************************************************************************)
EXTENDS Naturals

CONSTANTS
    Counts,     \* repeat counts of the columns and fields considered
    Widths      \* widths of their text

ASSUME ColumnFormatAssumption == Counts \subseteq Nat /\ Widths \subseteq Nat

\* _DTYPE_TO_TFORM and, per letter, the element type a column reads as
LetterOf == [b1 |-> "L", u1 |-> "B", i1 |-> "B", i2 |-> "I", u2 |-> "I", i4 |-> "J", u4 |-> "J",
             i8 |-> "K", u8 |-> "K", f4 |-> "E", f8 |-> "D", c8 |-> "C", c16 |-> "M"]
ElemOf == [L |-> "u1", X |-> "u1", B |-> "u1", I |-> "i2", J |-> "i4", K |-> "i8",
           E |-> "f4", D |-> "f8", C |-> "c8", M |-> "c16"]
\* The unsigned type of a signed one, where TZERO is the offset of that width
UnsignedOf == [i2 |-> "u2", i4 |-> "u4", i8 |-> "u8"]
OffsetFor == [u2 |-> [letter |-> "I", zero |-> "i2"], u4 |-> [letter |-> "J", zero |-> "i4"],
              u8 |-> [letter |-> "K", zero |-> "i8"]]
Letters == DOMAIN ElemOf
Integers_ == {"u1", "i2", "i4", "i8"}

Format(letter, n, vla) == [letter |-> letter, n |-> n, vla |-> vla]
Field(elem, n, width) == [elem |-> elem, n |-> n, width |-> width]
Column(fmt, scaled, zero) == [fmt |-> fmt, scaled |-> scaled, zero |-> zero]
Refused == Format("refused", 0, FALSE)
NoColumn == Column(Refused, FALSE, "none")

AtLeast1(w) == IF w = 0 THEN 1 ELSE w

\* _column_plan of a binary table: the field a column of the file becomes.
ReadAs(column) ==
    LET fmt == column.fmt
        elem == ElemOf[fmt.letter]
    IN CASE fmt.letter = "A" -> Field("S", 1, AtLeast1(fmt.n))
         [] fmt.letter # "A" /\ fmt.vla -> Field("O", 1, 0)
         [] OTHER ->
              Field(IF elem \notin Integers_ THEN elem
                    ELSE IF ~column.scaled /\ elem \in DOMAIN UnsignedOf /\ column.zero = elem
                         THEN UnsignedOf[elem]
                    ELSE IF column.scaled \/ column.zero # "none" THEN "f8" ELSE elem,
                    fmt.n, 0)

\* _tform_of: the format of a column of the file; a column with a scaling that a new
\* column could not be given is refused.
TformOf(column) ==
    LET fmt == column.fmt
        convention == ~column.scaled /\ column.zero \in DOMAIN UnsignedOf
    IN CASE fmt.letter = "A" -> Format("A", AtLeast1(fmt.n), FALSE)
         [] fmt.letter # "A" /\ (column.scaled \/ column.zero # "none") /\ ~convention -> Refused
         [] OTHER -> IF fmt.vla THEN Format(fmt.letter, 1, TRUE) ELSE fmt

\* _tform_from_dtype
TformFromDtype(field) ==
    CASE field.elem \in {"S", "U"} -> Format("A", AtLeast1(field.width) * field.n, FALSE)
      [] field.elem \in DOMAIN LetterOf -> Format(LetterOf[field.elem], field.n, FALSE)
      [] OTHER -> Refused

\* _tform_interchangeable (mutant: the count is not compared).
InterchangeableElements(have, synth) ==
    \/ have.letter = synth.letter
    \/ "A" \notin {have.letter, synth.letter} /\ ElemOf[have.letter] = ElemOf[synth.letter]
Interchangeable(have, synth) ==
    /\ have.n = synth.n
    /\ \/ have.letter = synth.letter
       \/ "A" \notin {have.letter, synth.letter} /\ ElemOf[have.letter] = ElemOf[synth.letter]

\* _binary_tform_for: NoColumn where the file has none of that name.
BinaryTformFor(column, field) ==
    LET synth == TformFromDtype(field)
        have == TformOf(column)
    IN IF column # NoColumn /\ (column.fmt.vla \/ field.elem = "O") THEN have
       ELSE IF synth = Refused \/ column = NoColumn THEN synth
       ELSE IF have = Refused THEN Refused
       ELSE IF Interchangeable(have, synth) THEN have ELSE synth

\* _emit_columns of a detached table: `spec` is the Column of that name it was built
\* from.  A VLA's cells must have its element type, or the assignment is refused.
DetachedTformFor(spec, field, sameElements) ==
    LET synth == BinaryTformFor(NoColumn, field)
    IN IF spec # NoColumn /\ field.elem = "O" /\ spec.fmt.vla
       THEN IF sameElements THEN spec.fmt ELSE Refused
       ELSE IF spec # NoColumn /\ ~spec.fmt.vla /\ synth # Refused /\ Interchangeable(spec.fmt, synth)
            THEN spec.fmt ELSE synth

\* _unsigned_col_tzero: of a VLA the first letter of the format is that of the descriptor.
UnsignedTzero(fmt, field) ==
    IF field.elem \in DOMAIN OffsetFor /\ ~fmt.vla /\ OffsetFor[field.elem].letter = fmt.letter
    THEN OffsetFor[field.elem].zero ELSE "none"

\* The column _write_to makes, and whether _emit_columns takes it for the one it was made
\* from, whose indexed keywords then go with it.
Written(fmt, field) == Column(fmt, FALSE, UnsignedTzero(fmt, field))
Compatible(column, fmt, field) ==
    /\ column # NoColumn /\ fmt = TformOf(column)
    /\ ~column.scaled /\ column.zero = UnsignedTzero(fmt, field)

-----------------------------------------------------------------------------
Fields == [elem : DOMAIN LetterOf, n : Counts, width : {0}]
            \cup [elem : {"S", "U"}, n : {1}, width : Widths] \cup {Field("O", 1, 0)}
Columns == [fmt : [letter : Letters, n : Counts, vla : {FALSE}], scaled : BOOLEAN,
            zero : {"none", "i2", "i4", "i8", "other"}]
             \cup [fmt : [letter : Letters, n : {1}, vla : {TRUE}], scaled : BOOLEAN,
                   zero : {"none", "i2", "i4", "i8", "other"}]
             \cup [fmt : [letter : {"A"}, n : Widths, vla : {FALSE}], scaled : {FALSE}, zero : {"none"}]

\* A field read back: a truth value as a byte, a signed byte as a byte (the library
\* refuses to store a negative one), text as bytes of the same width.
ReadsAs(field, got) ==
    LET elem == IF field.elem \in {"b1", "i1"} THEN "u1"
                ELSE IF field.elem = "U" THEN "S" ELSE field.elem
    IN got = Field(elem, field.n, IF elem = "S" THEN AtLeast1(field.width) ELSE 0)

\* The columns of each kind PyTable tells apart: those a new column can be given the format
\* of, variable-length ones, those with a scaling or another type's TZERO, and none.
Conventional(c) == ~c.scaled /\ (c.zero = "none" \/ ElemOf[c.fmt.letter] = c.zero)
ColumnsOf ==
    [plain  |-> {c \in Columns : ~c.fmt.vla /\ (c.fmt.letter = "A" \/ Conventional(c))},
     vla    |-> {c \in Columns : c.fmt.vla},
     scaled |-> {c \in Columns : ~c.fmt.vla /\ c.fmt.letter # "A" /\ ~Conventional(c)},
     new    |-> {NoColumn}]

\* A field saved over a column of the file is refused or reads back as the field (a
\* variable-length column stays one), and is taken for the old column only if it is stored
\* in the same way, format and TZERO.
Exact(column, field) ==
    LET fmt == BinaryTformFor(column, field)
        new == Written(fmt, field)
    IN fmt # Refused =>
         /\ IF column # NoColumn /\ column.fmt.vla THEN ReadAs(new) = Field("O", 1, 0)
            ELSE field.elem # "O" => ReadsAs(field, ReadAs(new))
         /\ Compatible(column, fmt, field) => new.zero = column.zero
              /\ new.fmt = [column.fmt EXCEPT !.n = IF fmt.letter = "A" THEN AtLeast1(@) ELSE @]
DetachedExact(spec, field, same) ==
    LET fmt == DetachedTformFor(spec, field, same)
    IN fmt # Refused => ReadsAs(field, ReadAs(Written(fmt, field)))

\* A column nobody edited is saved in its own format, logical, bit and variable-length ones
\* included, unless its TZERO is that of another width.
KeepsFormat(column) ==
    column.zero = "none" \/ (~column.fmt.vla /\ ElemOf[column.fmt.letter] = column.zero)
       => BinaryTformFor(column, ReadAs(column)) = TformOf(column)

\* The kinds of columns for which all this is so.
ExactKinds ==
    {k \in DOMAIN ColumnsOf :
       \A column \in ColumnsOf[k] :
         /\ \A field \in Fields :
              Exact(column, field) /\ \A same \in BOOLEAN : DetachedExact(column, field, same)
         /\ column # NoColumn /\ ~column.scaled => KeepsFormat(column)}
=============================================================================
