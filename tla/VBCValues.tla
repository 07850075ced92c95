-------------------------------- MODULE VBCValues --------------------------------
(***************************************************************************)
(* The values of the interpreter and what it computes with them. A value   *)
(* is a tag and its contents. Floats are whole numbers here: what the      *)
(* functions of the C library give is a number that stands for the call.   *)
(***************************************************************************)
EXTENDS VBCLoad
LOCAL INSTANCE Bitwise

Invalid   == <<"invalid">>
None      == <<"none">>
Bool(b)   == <<"bool", IF b THEN 1 ELSE 0>>
Object(h) == <<"object", h>>
Array(h)  == <<"array", h>>
Size(n)   == <<"usize", n>>
Func(i)   == <<"function", i>>                \* 0 is the null function
Address   == <<"ptr", 1>>                     \* nobody looks through one

IsInvalid(v) == v = Invalid
IsError(v)   == v[1] = "error"

-----------------------------------------------------------------------------
(* Widths: how many values an integer type has here.                       *)

Width    == [u8 |-> 4, i32 |-> 64, i64 |-> 1024, u64 |-> 1024, usize |-> 1024]
Unsigned == {"u8", "u64", "usize"}
Signed   == {"i32", "i64", "f64"}

\* A number made to fit: unsigned types wrap, and so does what a signed one
\* is converted from.
Fit(tag, n) ==
  LET w == Width[tag]  half == w \div 2 IN
  IF tag \in Unsigned THEN n % w ELSE ((n + half) % w) - half

Cast(tag, n) ==
  CASE tag = "none"           -> None
    [] tag = "bool"           -> Bool(n # 0)
    [] tag \in IntegerPrims   -> <<tag, Fit(tag, n)>>
    [] OTHER                  -> <<tag, n>>

\* A single byte that goes through a C operator without being cast back is an
\* int.
Promote(tag, n) == IF tag = "u8" THEN <<"i32", n>> ELSE Cast(tag, n)

-----------------------------------------------------------------------------
(* Floats.                                                                 *)

Infinity == 1000000
NaN      == 1000001
Euler    == 1000002
Pi       == 1000003

LibraryOps ==
  <<"Pow", "LogBase", "Atan2", "Ceil", "Floor", "Exp", "Log", "Sqrt", "Cbrt", "Sin", "Cos", "Tan",
    "Asin", "Acos", "Atan", "Sinh", "Cosh", "Tanh", "Asinh", "Acosh", "Atanh", "Div">>
FromLibrary(op, m, n) == 2000000 + 10000 * SelectInSeq(LibraryOps, LAMBDA o : o = op) + 100 * m + n

-----------------------------------------------------------------------------
(* Operators.                                                              *)

Ordered(op, m, n) ==
  CASE op = "Lt" -> m < n [] op = "Le" -> m <= n [] op = "Gt" -> m > n [] op = "Ge" -> m >= n

\* Division rounds towards zero.
Magnitude(n)   == IF n < 0 THEN -n ELSE n
Quotient(m, n) == IF (m < 0) = (n < 0) THEN Magnitude(m) \div Magnitude(n)
                  ELSE -(Magnitude(m) \div Magnitude(n))

\* What a number looks like bit by bit, in the widest type there is.
Word64(n) == n % Width["u64"]

Computed(op, m, n) ==
  CASE op = "Add" -> m + n
    [] op = "Sub" -> m - n
    [] op = "Mul" -> m * n
    [] op = "Div" -> Quotient(m, n)
    [] op = "Mod" -> m - n * Quotient(m, n)
    [] op = "And" -> Word64(m) & Word64(n)
    [] op = "Or"  -> Word64(m) | Word64(n)
    [] op = "Xor" -> Word64(m) ^^ Word64(n)
    [] op = "Shl" -> m * 2 ^ (n % 8)
    [] op = "Shr" -> m \div 2 ^ (n % 8)
    [] op = "Min" -> IF n < m THEN n ELSE m
    [] op = "Max" -> IF m < n THEN n ELSE m

\* The types an operator is there for: shifts are for integers, bool has logic
\* and an order but no arithmetic, powers and angles are for floats.
DomainOf(op) ==
  CASE op \in {"Shl", "Shr"}                       -> IntegerPrims
    [] op \in {"And", "Or", "Xor"}                 -> NumericPrims \ FloatPrims
    [] op \in {"Add", "Sub", "Mul", "Div", "Mod"}  -> NumericPrims \ {"bool"}
    [] op \in {"Pow", "LogBase", "Atan2"}          -> FloatPrims
    [] OTHER                                       -> NumericPrims

\* A NaN is nobody's equal.
IsNaN(v)    == v = <<"f64", NaN>>
op_eq(l, r) == l = r /\ ~IsNaN(l)

\* A quotient of floats may be no whole number.
FloatResult(op, m, n) ==
  <<"f64", IF op \in {"Pow", "LogBase", "Atan2", "Div"} THEN FromLibrary(op, m, n)
           ELSE Computed(op, m, n)>>

binop(op, l, r) ==
  CASE op = "Eq" -> Bool(op_eq(l, r))
    [] op = "Ne" -> Bool(~op_eq(l, r))
    [] op \notin {"Eq", "Ne"} /\ l[1] # r[1] -> <<"error", "MismatchedTypes">>
    [] op \notin {"Eq", "Ne"} /\ l[1] = r[1] /\ l[1] \in DomainOf(op) ->
         CASE op \in {"Lt", "Le", "Gt", "Ge"} ->
                Cast(IF l[1] = "u8" THEN "u8" ELSE "bool",
                     IF Ordered(op, l[2], r[2]) THEN 1 ELSE 0)
           [] op \in {"Div", "Mod"} /\ l[1] # "f64" /\ r[2] = 0 -> <<"error", "undefined">>
           [] l[1] = "f64" /\ op \notin {"Lt", "Le", "Gt", "Ge"} -> FloatResult(op, l[2], r[2])
           [] OTHER -> Cast(l[1], Computed(op, l[2], r[2]))
    [] OTHER -> <<"error", "BadOperand">>

-----------------------------------------------------------------------------
(* Conversions. All but floats go through the widest unsigned word.        *)

Bits(v) ==
  CASE v[1] = "none" -> 0
    [] v[1] \in NumericPrims -> Word64(v[2])
    [] OTHER -> Word64(1)

convert(v, to) ==
  CASE v[1] \in {"error", "invalid"} \/ to = "ptr" -> <<"error", "BadConversion">>
    [] v[1] \notin {"error", "invalid"} /\ to # "ptr" /\ v[1] = to -> v
    [] v[1] = "f64" /\ to \notin {"ptr", "f64"} -> Cast(to, v[2])
    [] OTHER -> Cast(to, Bits(v))

op_bits(v) == IF v[1] = "f64" THEN <<"u64", Word64(v[2])>> ELSE convert(v, "u64")

op_ptr(v) ==
  CASE v[1] = "none" -> <<"ptr", 0>>
    [] v[1] \in {"error", "invalid", "registerref", "fieldref", "arrayref"} -> <<"error", "BadOperand">>
    [] OTHER -> Address

op_read(v) == IF v[1] = "ptr" THEN v ELSE <<"error", "BadOperand">>

Library1 == {"Ceil", "Floor", "Exp", "Log", "Sqrt", "Cbrt", "Sin", "Cos", "Tan", "Asin", "Acos",
             "Atan", "Sinh", "Cosh", "Tanh", "Asinh", "Acosh", "Atanh"}

unop(op, v) ==
  CASE op = "Neg" /\ v[1] \in NumericPrims \ {"bool"} -> Promote(v[1], -v[2])
    [] op = "Abs" /\ v[1] \in Signed           -> <<v[1], Magnitude(v[2])>>
    [] op = "Not" /\ v[1] = "bool"             -> Bool(v[2] = 0)
    [] op = "Not" /\ v[1] \in IntegerPrims     -> Promote(v[1], -v[2] - 1)
    [] op \in Library1 /\ v[1] = "f64"         -> <<"f64", FromLibrary(op, v[2], 0)>>
    [] op = "IsInf" /\ v[1] = "f64"            -> Bool(v[2] = Infinity)
    [] op = "IsNaN" /\ v[1] = "f64"            -> Bool(IsNaN(v))
    [] op = "Bits"                             -> op_bits(v)
    [] op = "Ptr"                              -> op_ptr(v)
    [] op = "Read"                             -> op_read(v)
    [] OTHER -> <<"error", "BadOperand">>

ConstantOf ==
  [Const_E |-> <<"f64", Euler>>, Const_Pi |-> <<"f64", Pi>>,
   Const_Inf |-> <<"f64", Infinity>>, Const_NaN |-> <<"f64", NaN>>]

-----------------------------------------------------------------------------
(* How the elements of an array are laid out.                              *)

\* What the elements are read back as: the elements of a tuple may be anything.
unarray(T, id) ==
  IF complex_type(T, id).kind = "tuple" THEN DynamicTypeId ELSE complex_type(T, id).elements[1]

RECURSIVE layout_type_id(_, _)
layout_type_id(T, id) ==
  LET kind    == IF is_complex(T, id) THEN complex_type(T, id).kind ELSE "simple"
      Layouts == {layout_type_id(T, c) : c \in ToSet(complex_type(T, id).elements)}
  IN  CASE id = DynamicTypeId \/ kind = "ref" -> "dyn"
        [] id < PrimitiveTypeCount             -> PrimitiveTypes[id + 1]
        [] kind \in {"array", "tuple"}         -> "array"
        [] kind = "cown"                       -> "cown"
        [] kind = "union"                      -> IF Cardinality(Layouts) = 1
                                                  THEN CHOOSE l \in Layouts : TRUE ELSE "dyn"
        [] OTHER                               -> "object"

\* What an element is before it is first stored: zeros are a value of the
\* primitive types alone.
Cleared(layout) ==
  CASE layout = "none" -> None
    [] layout \in Primitives \ {"none"} -> <<layout, 0>>
    [] OTHER -> Invalid

is_primitive(layout) == layout \in Primitives

\* What the bytes of a value are as an element of primitive type.
to_addr(layout, v) == IF v[1] = layout THEN v ELSE Cast(layout, Bits(v))
=============================================================================
