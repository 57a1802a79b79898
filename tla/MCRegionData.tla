------------------------------ MODULE MCRegionData ------------------------------
(* A small instance of RegionData for TLC.                                  *)
EXTENDS RegionData

a == <<21>>
b == <<22>>
digit == <<23>>
true == <<24>>

\* The engine's texts: 3 is "3", TRUE is "true", all objects share a text.
MCText(v) ==
  CASE v.type = "number" -> digit
    [] v.type = "boolean" -> true
    [] v.type = "object" -> <<25>>

\* The keys "3" and 3, and true and "true", have one name; two objects
\* become one native key because a function in one of them is dropped, and so do
\* two strings of which one has a NUL.
Three == Str(digit)
Twins == {Obj(a :> Fun), Obj(a :> Null)}
Cut == Str(a \o <<NUL>> \o b)
Invalid == {Fun, Null, Undef, Arr(<<>>)}

\* Objects whose class names are the same if one of the characters is not
\* escaped; an object that cannot be written, inside another; a date the clock
\* cannot represent; and values that cannot be stored.
Bad == Obj(b :> Num(3))
MCUnwritable == {Bad}
Left == {Obj(a :> Arr(<<>>)), Obj(a :> Num(3) @@ b :> Null),
         Obj((a \o <<Backslash>>) :> Undef @@ b :> Null)}
Right == {Obj((a \o <<OpenBracket, CloseBracket>>) :> Num(3)),
          Obj((a \o <<Comma>> \o b) :> Num(3)), Obj(a :> Bad)}
Values == Left \cup {Date(-8), Date(20), Cut, Null, Bad}

MCPutInputs ==
  ({Three} \X Values) \cup ({Num(3)} \X Right)
    \cup ((Twins \cup {Cut, Bool(TRUE), Bad} \cup Invalid)
            \X {Undef})
MCGetInputs == {Three, Num(3), Str(a), Bad} \cup Twins \cup Invalid
MCKeyArrays ==
  {<<>>, <<Three, Num(3)>>, <<Bool(TRUE), Str(true)>>,
   <<Obj(a :> Fun), Str(a)>>, <<Three, Null>>}

\* Several entries at once; the second and the third hold one that throws, the
\* last has two names of one key.
MCMapInputs ==
  {digit :> Obj(a :> Arr(<<>>)) @@ a :> Date(-8),
   digit :> Obj(a :> Arr(<<>>)) @@ a :> Null,
   digit :> Obj(a :> Fun) @@ a :> Date(-8),
   a :> Date(-8) @@ Cut.units :> Undef}

MCOtherKeys == {Three, Num(3)}

MCJsValues ==
  {k[1] : k \in MCPutInputs} \cup {k[2] : k \in MCPutInputs} \cup MCGetInputs
    \cup UNION {Range(k) : k \in MCKeyArrays} \cup {Str(a), Str(digit)}

\* Integers next to the safe ones, of which three bits have -7 to 7.
MCJavaValues == {CInt64(8), CInt64(9)}
===============================================================================
