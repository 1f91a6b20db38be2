----------------------------- MODULE CaptureShapes -----------------------------
(***************************************************************************)
(* proxy_capture.rs: sensitive values are cut out of a decoded body before   *)
(* it is shown, and the catalogue keeps a shape of the body, which has the    *)
(* types of its values and not the values.  Bodies are values of BonCodec.    *)
(***************************************************************************)
EXTENDS BonCodec, FiniteSets

CONSTANTS
    Sensitive,      \* is_sensitive_key: names in lower case without _ and -
    MaxShapeDepth,  \* MAX_SHAPE_DEPTH
    MaxFields,      \* MAX_SHAPE_FIELDS
    MaxVariants,    \* MAX_ARRAY_VARIANTS
    MaxItems        \* MAX_ARRAY_ITEMS_INSPECTED

-----------------------------------------------------------------------------
\* to_ascii_lowercase().replace(['_', '-'], "")
normalized(key) ==
    LET letters == SelectSeq(key, LAMBDA c : c \notin {95, 45})
    IN  [i \in 1..Len(letters) |-> IF letters[i] \in 65..90 THEN letters[i] + 32 ELSE letters[i]]

is_sensitive_key(key) == normalized(key) \in Sensitive

Redacted == Str(<<0>>)

\* Faulty: the items of an array are not looked into
RECURSIVE redact_objects(_)
redact_objects(v) ==
    IF v.t = "obj"
    THEN Obj({[k |-> x.k, v |-> IF is_sensitive_key(x.k.s) THEN Redacted
                                ELSE redact_objects(x.v)] : x \in v.o})
    ELSE v

RECURSIVE redact_value(_)
redact_value(v) ==
    CASE v.t = "obj" -> Obj({[k |-> x.k, v |-> IF is_sensitive_key(x.k.s) THEN Redacted
                                               ELSE redact_value(x.v)] : x \in v.o})
      [] v.t = "arr" -> Arr([i \in 1..Len(v.a) |-> redact_value(v.a[i])])
      [] OTHER -> v

-----------------------------------------------------------------------------
\* A shape is a type name, the set of an array's shapes (they are sorted and
\* different), or the fields of an object and whether some are missing.
Leaf(name) == [t |-> name]

\* One more shape of an array; the one too many ends the inspection.
AddVariant(found, shape) ==
    IF shape \in found \/ Leaf("variant_limit") \in found THEN found
    ELSE IF Cardinality(found) >= MaxVariants THEN found \cup {Leaf("variant_limit")}
    ELSE found \cup {shape}

FirstOf(s, n) == SubSeq(s, 1, IF Len(s) < n THEN Len(s) ELSE n)

RECURSIVE value_shape(_, _)
value_shape(v, depth) ==
    IF depth >= MaxShapeDepth THEN Leaf("depth_limit")
    ELSE
    CASE v.t = "arr" ->
            [t |-> "arr", of |-> FoldLeft(LAMBDA found, x : AddVariant(found, value_shape(x, depth + 1)),
                                          {}, FirstOf(v.a, MaxItems))]
      [] v.t = "obj" ->
            [t |-> "obj", truncated |-> Cardinality(v.o) > MaxFields,
             fields |-> {[k |-> x.k, v |-> value_shape(x.v, depth + 1)] :
                           x \in Range(FirstOf(SetToSeq(v.o), MaxFields))}]
      [] OTHER -> Leaf(IF v.t = "float" THEN "num" ELSE v.t)

RECURSIVE ShapeDepth(_)
ShapeDepth(s) ==
    LET parts == CASE s.t = "arr" -> s.of
                   [] s.t = "obj" -> {f.v : f \in s.fields}
                   [] OTHER -> {}
    IN  IF parts = {} THEN 1 ELSE 1 + Max({ShapeDepth(p) : p \in parts})

RECURSIVE ShapeWide(_)
ShapeWide(s) ==
    CASE s.t = "arr" -> Cardinality(s.of) <= MaxVariants + 1 /\ \A p \in s.of : ShapeWide(p)
      [] s.t = "obj" -> Cardinality(s.fields) <= MaxFields /\ \A f \in s.fields : ShapeWide(f.v)
      [] OTHER -> TRUE

-----------------------------------------------------------------------------
\* Where a secret is put under a sensitive name, however the name is spelled and
\* however deep it stands, neither what is shown nor the shape in the catalogue
\* depends on the secret, and the shape stays within its limits.
SecretsHidden(Body(_), s1, s2) ==
    LET shown == redact_value(Body(s1))
        shape == value_shape(shown, 0)
    IN  /\ shown = redact_value(Body(s2))
        /\ ShapeDepth(shape) <= MaxShapeDepth + 1 /\ ShapeWide(shape)
=============================================================================
