---------------------------- MODULE Weightsets ----------------------------
(***************************************************************************)
(* The weightsets b, z, zmin and q, one for each star_status_t: when a     *)
(* star exists, and what an algorithm that needs stars must do before it   *)
(* starts.  A rational of q is a pair <<num, den>> in lowest terms.        *)
(***************************************************************************)
EXTENDS Integers

Names == {"b", "z", "zmin", "q"}

\* The zero of zmin, numeric_limits<int>::max(): no weight is above it, even
\* where the sum of two weights, which is not limited here, is greater.
oo == 1000

star_status(ws) ==
  CASE ws = "b"    -> "STARRABLE"
    [] ws = "z"    -> "NON_STARRABLE"
    [] ws = "zmin" -> "TOPS"
    [] ws = "q"    -> "ABSVAL"

zero(ws) == CASE ws = "b" -> FALSE [] ws = "z" -> 0 [] ws = "zmin" -> oo [] ws = "q" -> <<0, 1>>
one(ws)  == CASE ws = "b" -> TRUE  [] ws = "z" -> 1 [] ws = "zmin" -> 0  [] ws = "q" -> <<1, 1>>

Magnitude(n) == IF n < 0 THEN -n ELSE n
gcd[mn \in Nat \X Nat] == IF mn[2] = 0 THEN mn[1] ELSE gcd[<<mn[2], mn[1] % mn[2]>>]
reduce(num, den) ==
  LET d == gcd[<<Magnitude(num), den>>]
  IN  <<num \div d, den \div d>>

\* The values of each weightset.
IsWeight(ws, v) ==
  CASE ws = "b"            -> v \in BOOLEAN
    [] ws \in {"z", "zmin"} -> v \in Int
    [] ws = "q"            -> v \in Int \X Nat /\ v[2] # 0 /\ gcd[<<Magnitude(v[1]), v[2]>>] = 1

add(ws, l, r) ==
  CASE ws = "b"    -> l \/ r
    [] ws = "z"    -> l + r
    [] ws = "zmin" -> IF r = oo \/ (l # oo /\ l <= r) THEN l ELSE r
    [] ws = "q"    -> reduce(l[1] * r[2] + r[1] * l[2], l[2] * r[2])

mul(ws, l, r) ==
  CASE ws = "b"    -> l /\ r
    [] ws = "z"    -> l * r
    [] ws = "zmin" -> IF oo \in {l, r} THEN oo ELSE l + r
    [] ws = "q"    -> reduce(l[1] * r[1], l[2] * r[2])

\* ldivide(l, r), where l divides r.
ldivide(ws, l, r) ==
  CASE ws = "b"    -> r
    [] ws = "z"    -> IF l < 0 THEN -(r \div (-l)) ELSE r \div l
    [] ws = "zmin" -> IF r = oo THEN oo ELSE r - l
    [] ws = "q"    -> IF l[1] < 0 THEN reduce((-r[1]) * l[2], (-l[1]) * r[2])
                      ELSE reduce(r[1] * l[2], l[1] * r[2])

\* When star(v) does not raise.
starrable(ws, v) ==
  CASE ws = "b"    -> TRUE
    [] ws = "z"    -> v = 0
    [] ws = "zmin" -> 0 <= v
    [] ws = "q"    -> Magnitude(v[1]) < v[2]

star(ws, v) == IF ws = "q" THEN <<v[2], v[2] - v[1]>> ELSE one(ws)

\* The order of weights.
less(ws, l, r) ==
  CASE ws = "b" -> ~l /\ r
    [] ws = "q" -> l[1] * r[2] < r[1] * l[2]
    [] ws \in {"z", "zmin"} -> l < r

abs(ws, v) == IF ws = "q" THEN <<Magnitude(v[1]), v[2]>> ELSE v
=============================================================================
