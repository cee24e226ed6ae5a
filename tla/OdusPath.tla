------------------------------ MODULE OdusPath ------------------------------
(***************************************************************************)
(* exec.rs: what becomes of a path that a caller or the configuration      *)
(* wrote.  A path is what stands between its slashes: "/usr//bin/." is     *)
(* Absolute(<<"usr", "", "bin", ".">>), "/" is Absolute(<<"">>), and the   *)
(* empty string is Relative(<<"">>).                                       *)
(***************************************************************************)
EXTENDS Integers, Sequences, FiniteSets

CONSTANTS
    Names,      \* what a path can have between two slashes, but "", . and ..
    Nul,        \* one of them, holding a NUL byte
    Other,      \* a TOML value of another type than the code asks for, or none
    Error       \* an error returned

Parts == Names \cup {"", ".", ".."}

Absolute(parts) == [abs |-> TRUE, parts |-> parts]
Relative(parts) == [abs |-> FALSE, parts |-> parts]

\* A relative path that begins with nothing is empty.
Paths ==
    {t \in [abs : BOOLEAN, parts : Seq(Parts) \ {<<>>}] :
        ~t.abs /\ Len(t.parts) > 1 => t.parts[1] # ""}

ASSUME NamesAssumption ==
    /\ Nul \in Names
    /\ Names \cap {"", ".", ".."} = {}
    /\ {"usr", "bin", "sbin", "local"} \subseteq Names

ASSUME ErrorAssumption == Error \notin Paths /\ Other \notin Paths

\* As NormalizeAbsolutePath writes it: no slash doubled or last, no "." or "..".
Canonical(f) ==
    /\ f.abs
    /\ f.parts = <<"">> \/ \A i \in DOMAIN f.parts : f.parts[i] \in Names

\* The n-th smallest of a set of numbers, and the elements of s that have one
\* of these numbers, in their order.
Nth(K, n) == CHOOSE k \in K : Cardinality({j \in K : j <= k}) = n
Pick(s, K) == [n \in 1..Cardinality(K) |-> s[Nth(K, n)]]

\* Path::components: "" and "." are no components, except a leading "." of a
\* relative path.
Components(t) ==
    {i \in DOMAIN t.parts :
        t.parts[i] # "" /\ (t.parts[i] = "." => i = 1 /\ ~t.abs)}

\* Segments ".." are dropped like those of a path that is walked by components.
NormalizeDroppingParents(t) ==
    LET names == Pick(t.parts, {i \in Components(t) : t.parts[i] # ".."})
    IN  IF ~t.abs THEN Error ELSE Absolute(IF names = <<>> THEN <<"">> ELSE names)

NormalizeAbsolutePath(t) ==
    LET names == Pick(t.parts, Components(t))
    IN  IF ~t.abs \/ (\E i \in Components(t) : t.parts[i] = "..") THEN Error
        ELSE Absolute(IF names = <<>> THEN <<"">> ELSE names)

\* A bare name is the only component of its path, and no "." or "..".
IsBare(t) ==
    \E i \in DOMAIN t.parts : Components(t) = {i} /\ t.parts[i] \in Names

ValidateRelativeCommand(t) ==
    IF IsBare(t) THEN t.parts[CHOOSE i \in Components(t) : TRUE] ELSE Error

DefaultSecurePath ==
    <<Absolute(<<"usr", "bin">>), Absolute(<<"bin">>),
      Absolute(<<"usr", "sbin">>), Absolute(<<"sbin">>),
      Absolute(<<"usr", "local", "bin">>), Absolute(<<"usr", "local", "sbin">>)>>

\* An array of paths and other values, a string split at its colons, or neither.
LoadSecurePaths(value) ==
    LET raw == IF value = Other THEN DefaultSecurePath
               ELSE Pick(value, {i \in DOMAIN value : value[i] # Other})
        dirs == [i \in DOMAIN raw |-> NormalizeAbsolutePath(raw[i])]
    IN  IF raw = <<>> \/ (\E i \in DOMAIN raw : dirs[i] = Error) THEN Error ELSE dirs

\* Path::join of a normalised directory and a bare name
Candidate(d, n) ==
    Absolute(IF d.parts = <<"">> THEN <<n>> ELSE Append(d.parts, n))

HasNul(dirs) == \E i \in DOMAIN dirs : \E j \in DOMAIN dirs[i].parts : dirs[i].parts[j] = Nul
-----------------------------------------------------------------------------
\* What a path means when it is walked from the root, one segment at a time, and
\* no segment is a symbolic link: the directory dir after one more part.
Enter(dir, part) ==
    IF part \in {"", "."} THEN dir
    ELSE IF part # ".." THEN Append(dir, part)
    ELSE IF dir = <<>> THEN <<>> ELSE SubSeq(dir, 1, Len(dir) - 1)

Walk(t) ==
    LET dir[i \in 0..Len(t.parts)] ==
            IF i = 0 THEN <<>> ELSE Enter(dir[i - 1], t.parts[i])
    IN  dir[Len(t.parts)]
=============================================================================
