--------------------------- MODULE MCConstruction ---------------------------
(***************************************************************************)
(* Construction for TLC: documents of up to two rules, one of every kind   *)
(* of fault among them, and the rules only a program can make.             *)
(***************************************************************************)
EXTENDS Construction

Str(n) == Json("string", n)
Num(n) == Json("integer", 2 * n)

Feature(id, geometry, priority, properties) ==
  [id |-> id, geometry |-> geometry, priority |-> priority, properties |-> properties]

Features ==
  {Feature(Str(1), "valid", Absent, [x |-> Json("integer", 2)]),
   Feature(Str(2), "valid", Num(1), [x |-> Json("decimal", 1)]),
   Feature(Num(1), "valid", Num(1), [x |-> Json("decimal", 100)]),
   Feature(JsonNull, "valid", Absent, [id |-> Str(2), x |-> Json("decimal", 2)]),
   Feature(JsonNull, "valid", Absent, [id |-> Num(2)]),
   Feature(Str(1), "missing", Absent, <<>>),
   Feature(Str(2), "invalid", Num(-1), <<>>),
   Feature(Str(3), "unsupported", Absent, <<>>),
   Feature(Str(2), "empty", Absent, <<>>),
   Feature(Str(1), "valid", Num(-1), <<>>),
   Feature(Str(2), "valid", Str(1), [x |-> JsonNull]),
   Feature(Str(3), "valid", Json("decimal", 2), <<>>),
   Feature(Str(1), "valid", Num(0), [x |-> JsonNested])}

UpTo2(S) == {<<>>} \cup {<<a>> : a \in S} \cup {<<a, b>> : a, b \in S}

MCDocuments == UpTo2(Features)

Made(id, priority, value) ==
  [id |-> id, geometry |-> "valid", priority |-> priority, properties |-> [x |-> value]]

MCPrograms ==
  UpTo2({Made(1, 0, Value("Float", NaN)), Made(1, 1, Value("Float", 2)),
         Made(2, -1, Value("Int", 2)), Made(2, 0, Value("Null", 0)),
         Made(3, 2, Value("Bool", 1))})
=============================================================================
