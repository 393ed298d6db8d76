--------------------------- MODULE MCClassification ---------------------------
(* Every object; arrays, also nested, of a sample of values; and arrays of   *)
(* three and four scalars, which may be structs, alone and beside others.    *)
EXTENDS Classification

Scalar(form) == [json |-> "scalar", form |-> form]

Array(items) == [json |-> "array", items |-> items]

Object(method, id, result, unknown) ==
    [json |-> "object", version |-> TRUE, method |-> method, id |-> id,
     result |-> result, error |-> "absent", unknown |-> unknown]

Sample == {Object(TRUE, "good", FALSE, FALSE), Object(TRUE, "absent", FALSE, FALSE),
           Object(FALSE, "good", TRUE, FALSE), Object(TRUE, "null", FALSE, TRUE),
           Object(TRUE, "bad", FALSE, FALSE), Scalar("number"), Scalar("bad")}

Upto(n, S) == UNION {[1..k -> S] : k \in 0..n}

Flat == {Array(s) : s \in Upto(2, Sample)}

Nested == {Array(s) : s \in Upto(2, Flat)}

Structs == {Array(s) : s \in [1..3 -> Scalars] \cup [1..4 -> Scalars]}

Mixed == {Array(<<a, b>>) : a \in Structs, b \in Sample}

MCTexts == Objects \cup Scalars \cup Sample \cup Flat \cup Nested \cup Structs \cup Mixed

RECURSIVE Nesting(_)
Nesting(v) ==
    IF v.json = "array" THEN 1 + Max({0} \cup {Nesting(v.items[i]) : i \in DOMAIN v.items}) ELSE 0

MCDepth == [v \in MCTexts |-> Nesting(v)]
=============================================================================
