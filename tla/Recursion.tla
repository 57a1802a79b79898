------------------------------- MODULE Recursion -------------------------------
(***************************************************************************)
(* A recursive function f[x \in S] == Body(f, x) satisfies its equation if  *)
(* Body looks at f for the parts of x only, and the parts are well-founded. *)
(* TLA+ defines f with CHOOSE, so that this has to be proved; it stands     *)
(* here once, for the functions of Conversions that descend into values.   *)
(***************************************************************************)
EXTENDS TLAPS

CONSTANTS
  S,           \* the arguments of the function
  Parts(_),    \* what an argument consists of
  Body(_, _)   \* the value for an argument, given the function

\* The function on a part of its arguments.
Equation(T, g) == g = [x \in T |-> Body(g, x)]

\* A set of arguments with their parts.
Closed(T) == T \subseteq S /\ \A x \in T : Parts(x) \subseteq T

\* No argument is a part of itself, however deep inside.
WellFounded ==
  /\ \A x \in S : Parts(x) \subseteq S
  /\ \A T \in SUBSET S : T # {} => \E x \in T : Parts(x) \cap T = {}

\* The body asks for the parts only.
Local ==
  \A g, h : \A x \in S : (\A y \in Parts(x) : g[y] = h[y]) => Body(g, x) = Body(h, x)

\* A solution on a set of arguments.
Sol(T, g) == Closed(T) /\ Equation(T, g)

\* Two solutions agree where both are one.
LEMMA Unique ==
  ASSUME WellFounded, Local, NEW T, NEW U, NEW g, NEW h, Sol(T, g), Sol(U, h)
  PROVE  \A x \in T \cap U : g[x] = h[x]
<1> DEFINE Bad == {x \in T \cap U : g[x] # h[x]}
<1> SUFFICES ASSUME Bad # {} PROVE FALSE
  OBVIOUS
<1>1. Bad \in SUBSET S
  BY DEF Sol, Closed
<1>2. PICK x \in Bad : Parts(x) \cap Bad = {}
  BY <1>1 DEF WellFounded
<1>3. \A y \in Parts(x) : g[y] = h[y]
  BY <1>2 DEF Sol, Closed
<1>4. Body(g, x) = Body(h, x)
  BY <1>1, <1>3 DEF Local
<1>5. g[x] = Body(g, x) /\ h[x] = Body(h, x)
  <2>1. g = [z \in T |-> Body(g, z)] /\ h = [z \in U |-> Body(h, z)]
    BY DEF Sol, Equation
  <2>2. x \in T /\ x \in U
    OBVIOUS
  <2>3. g[x] = Body(g, x)
    BY <2>1, <2>2, Zenon
  <2>4. h[x] = Body(h, x)
    BY <2>1, <2>2, Zenon
  <2>5. QED
    BY <2>3, <2>4
<1>6. QED
  BY <1>4, <1>5

\* The function that the definition chooses satisfies its equation.
THEOREM RecursiveFunction ==
  ASSUME WellFounded, Local
  PROVE  LET f == CHOOSE g : g = [x \in S |-> Body(g, x)]
         IN f = [x \in S |-> Body(f, x)]
<1> DEFINE Good == {x \in S : \E T, g : x \in T /\ Sol(T, g)}
           Val(x) == CHOOSE v : \E T, g : x \in T /\ Sol(T, g) /\ v = g[x]
           G == [x \in Good |-> Val(x)]
<1>1. ASSUME NEW T, NEW g, Sol(T, g), NEW x \in T
      PROVE  x \in Good /\ G[x] = g[x]
  <2>1. x \in Good
    BY <1>1 DEF Sol, Closed
  <2>2. \E v : \E U, h : x \in U /\ Sol(U, h) /\ v = h[x]
    BY <1>1
  <2>3. PICK U, h : x \in U /\ Sol(U, h) /\ Val(x) = h[x]
    BY <2>2, Zenon
  <2>4. h[x] = g[x]
    BY <1>1, <2>3, Unique
  <2>5. QED
    BY <2>1, <2>3, <2>4
<1>2. Closed(Good)
  <2>1. ASSUME NEW x \in Good PROVE Parts(x) \subseteq Good
    <3>1. PICK T, g : x \in T /\ Sol(T, g)
      OBVIOUS
    <3>2. \A y \in Parts(x) : y \in T
      BY <3>1 DEF Sol, Closed
    <3>3. QED
      BY <3>1, <3>2, <1>1
  <2>2. QED
    BY <2>1 DEF Closed
<1>3. ASSUME NEW x \in Good PROVE G[x] = Body(G, x)
  <2>1. PICK T, g : x \in T /\ Sol(T, g)
    OBVIOUS
  <2> HIDE DEF Good, Val, G
  <2>2. \A y \in Parts(x) : y \in T
    BY <2>1 DEF Sol, Closed
  <2>3. \A y \in Parts(x) : G[y] = g[y]
    BY <2>1, <2>2, <1>1
  <2>4. Body(G, x) = Body(g, x)
    BY <1>2, <2>3 DEF Local, Closed
  <2>5. g[x] = Body(g, x)
    <3>1. g = [z \in T |-> Body(g, z)]
      BY <2>1 DEF Sol, Equation
    <3>2. QED
      BY <2>1, <3>1, Zenon
  <2>6. G[x] = g[x]
    BY <1>1, <2>1
  <2>7. QED
    BY <2>4, <2>5, <2>6
<1>4. Sol(Good, G)
  <2> HIDE DEF Val, Good
  <2>1. G = [x \in Good |-> Body(G, x)]
    BY <1>3
  <2>2. QED
    BY <1>2, <2>1 DEF Sol, Equation
<1>5. Good = S
  <2> SUFFICES ASSUME S \ Good # {} PROVE FALSE
    OBVIOUS
  <2>1. PICK x \in S \ Good : Parts(x) \cap (S \ Good) = {}
    BY DEF WellFounded
  <2>2. Parts(x) \subseteq Good
    BY <2>1 DEF WellFounded
  <2> DEFINE T == Good \cup {x}
             g == [y \in T |-> IF y = x THEN Body(G, x) ELSE G[y]]
  <2>3. Closed(T)
    BY <1>2, <2>1, <2>2 DEF Closed
  <2> HIDE DEF Good, Val, G
  <2>4. \A y \in Good : g[y] = G[y]
    BY <2>1
  <2>5. ASSUME NEW y \in T PROVE g[y] = Body(g, y)
    <3>1. \A z \in Parts(y) : g[z] = G[z]
      BY <1>2, <2>2, <2>4 DEF Closed
    <3>2. y \in S
      BY <2>3 DEF Closed
    <3>3. Body(g, y) = Body(G, y)
      BY <3>1, <3>2 DEF Local
    <3>4. CASE y = x
      BY <3>3, <3>4
    <3>5. CASE y \in Good
      BY <1>3, <2>4, <3>3, <3>5
    <3>6. QED
      BY <3>4, <3>5
  <2>6. g = [y \in T |-> Body(g, y)]
    BY <2>5
  <2>7. Sol(T, g)
    BY <2>3, <2>6 DEF Sol, Equation
  <2> USE DEF Good
  <2>8. x \in Good
    BY <2>1, <2>7
  <2>9. QED
    BY <2>1, <2>8
<1>6. G = [x \in S |-> Body(G, x)]
  <2> HIDE DEF G
  <2>1. QED
    BY <1>4, <1>5 DEF Sol, Equation
<1>7. QED
  BY <1>6, Zenon
===============================================================================
