-------------------------------- MODULE VBCLoad --------------------------------
(***************************************************************************)
(* The loader of the interpreter: it reads a file word by word, in the     *)
(* order the emitter wrote it, and builds the tables that instructions     *)
(* refer to by number. Nothing but a count tells it how far a table goes.  *)
(***************************************************************************)
EXTENDS VBCEmit

\* A reader takes a position and gives what it read and the next position.
At(v, pc) == [v |-> v, pc |-> pc]

ReadMany(n, Read(_), pc) ==
  FoldLeft(LAMBDA r, i : LET x == Read(r.pc) IN At(Append(r.v, x.v), x.pc),
           At(<<>>, pc), [i \in 1 .. n |-> i])

uleb(file, pc) == At(file[pc], pc + 1)

\* A count and that many.
ReadTable(file, Read(_), pc) == ReadMany(file[pc], Read, pc + 1)

\* One thing after another: what was read so far, and a reader that goes on
\* from there.
Then(x, Read(_), Combine(_, _)) ==
  LET Both(y) == At(Combine(x.v, y.v), y.pc) IN Both(Read(x.pc))

ulebs(file, pc) == ReadTable(file, LAMBDA p : uleb(file, p), pc)

ReadPair(file, pc) == At(<<file[pc], file[pc + 1]>>, pc + 2)

Pairs(file, pc) == ReadTable(file, LAMBDA p : ReadPair(file, p), pc)
parse_methods(file, pc) == Pairs(file, pc)
parse_fields(file, pc)  == Pairs(file, pc)

ClassOf(fields, methods) == [fields |-> fields, methods |-> methods]

PrimitiveClass(file, pc) == Then(At(<<>>, pc), LAMBDA p : parse_methods(file, p), ClassOf)
UserClass(file, pc) == Then(parse_fields(file, pc), LAMBDA p : parse_methods(file, p), ClassOf)

ReadLib(file, pc) == At(file[pc + 1], pc + 2)      \* the init function, or 0

ReadSymbol(file, pc) ==
  LET Types(p) == ulebs(file, p)
      Ret(p)   == uleb(file, p)
      params   == Then(uleb(file, pc), Types, LAMBDA n, ps : [name |-> n, params |-> ps])
  IN  Then(params, Ret, LAMBDA s, t : s @@ [ret |-> t])

parse_function(file, pc) ==
  LET Types(p) == ulebs(file, p)
      One(p)   == uleb(file, p)
      params   == Then(One(pc), Types, LAMBDA n, ts : [registers |-> n, params |-> ts])
      ret      == Then(params, One, LAMBDA f, t : f @@ [ret |-> t])
      vs       == Then(ret, Types, LAMBDA f, ts : f @@ [vars |-> ts])
  IN  Then(vs, Types, LAMBDA f, ps : f @@ [labels |-> ps])

parse_complex_type(file, pc) ==
  IF file[pc] \in {"array", "cown", "ref"}
  THEN At(Info(file[pc], <<file[pc + 1]>>), pc + 2)
  ELSE Then(uleb(file, pc), LAMBDA p : ulebs(file, p), Info)

-----------------------------------------------------------------------------
(* Subtyping of what runs. T has the tables; ids that no table has are an  *)
(* error of the code, not of the program.                                  *)

is_complex(T, id) == id >= T.first_complex /\ id # DynamicTypeId
complex_type(T, id) == T.types[id - T.first_complex + 1]

RECURSIVE subtype(_, _, _)
subtype(T, sub, super) ==
  LET kind(id) == IF is_complex(T, id) THEN complex_type(T, id).kind ELSE "simple"
      els(id)  == complex_type(T, id).elements
  IN
  CASE super = DynamicTypeId -> TRUE
    [] super # DynamicTypeId /\ sub = DynamicTypeId -> FALSE
    [] super # DynamicTypeId /\ sub = super -> TRUE
    [] OTHER ->
       CASE kind(sub) = "union"   -> \A c \in ToSet(els(sub)) : subtype(T, c, super)
         [] kind(sub) # "union" /\ kind(super) = "union" ->
              \E c \in ToSet(els(super)) : subtype(T, sub, c)
         [] kind(sub) = "tuple" /\ kind(super) = "tuple" ->
              /\ Len(els(sub)) = Len(els(super))
              /\ \A i \in DOMAIN els(sub) : subtype(T, els(sub)[i], els(super)[i])
         [] kind(sub) = "tuple" /\ kind(super) = "array" ->
              \A c \in ToSet(els(sub)) : subtype(T, c, els(super)[1])
         [] OTHER ->
              /\ kind(sub) # "simple" /\ kind(sub) = kind(super)
              /\ subtype(T, els(sub)[1], els(super)[1])
              /\ subtype(T, els(super)[1], els(sub)[1])

\* The type of a reference, when the program names it.
ref(T, id) ==
  LET i == SelectInSeq(T.types, LAMBDA t : t.kind = "ref" /\ t.elements = <<id>>)
  IN  T.first_complex + (IF i = 0 THEN 3 ELSE i - 1)

-----------------------------------------------------------------------------
(* The whole file: [ok, T].                                                *)

ReservedAsExpected(T) ==
  /\ Len(T.types) >= 6
  /\ SubSeq(T.types, 1, 6) = ReservedTypes(T.first_complex)

fixup_methods(T, c) ==
  \A m \in ToSet(c.methods) :
     m[1] = FinalizerMethodId => Len(T.funcs[m[2] + 1].params) = 1

\* The sections of a file, in order; L has the tables so far.
Header(file) ==
  At([file |-> file, first_complex |-> PrimitiveTypeCount + file[3]], 5)

Classes_(file, pc) ==
  LET Some(n, Read(_, _), p) == ReadMany(n, LAMBDA q : Read(file, q), p)
      prims == Some(PrimitiveTypeCount, PrimitiveClass, pc)
      users == Then(prims, LAMBDA p : Some(file[3], UserClass, p), \o)
  IN  Then(users, LAMBDA p : Some(file[4], PrimitiveClass, p), \o)

Section(x, name, Read(_, _)) ==
  Then(x, LAMBDA p : ReadTable(x.v.file, LAMBDA q : Read(x.v.file, q), p),
       LAMBDA L, table : L @@ (name :> table))

Tables_(file) ==
  LET classes == Then(Header(file), LAMBDA p : Classes_(file, p), LAMBDA L, cs : L @@ ("classes" :> cs))
      libs    == Section(classes, "inits", ReadLib)
      symbols == Section(libs, "symbols", ReadSymbol)
      funcs   == Section(symbols, "funcs", parse_function)
      types   == Section(funcs, "types", parse_complex_type)
  IN  Then(Section(types, "memo", uleb), LAMBDA p : uleb(file, p),
           LAMBDA L, size : L @@ ("size" :> size))

Acceptable(T, main, code) ==
  /\ T.file[1] = MagicNumber /\ T.file[2] = CurrentVersion
  /\ \A f \in ToSet(T.funcs) : f.labels # <<>>
  /\ main.params = <<>>
  /\ subtype([T EXCEPT !.types = <<>>], main.ret, val("none"))
  /\ ReservedAsExpected(T)
  /\ \A c \in ToSet(T.classes) : fixup_methods(T, c)
  /\ Len(T.file) = code - 1 + T.size

\* Label positions become places in the file.
Placed(T, code) ==
  [T EXCEPT !.funcs = [i \in DOMAIN @ |-> [@[i] EXCEPT !.labels =
                         [l \in DOMAIN @ |-> @[l] + code]]]]

LoadedFrom(x) ==
  [ok |-> x.v.funcs # <<>> /\ Acceptable(x.v, x.v.funcs[MainFunctionId + 1], x.pc),
   T  |-> Placed(x.v, x.pc)]

load(file) == LoadedFrom(Tables_(file))
=============================================================================
