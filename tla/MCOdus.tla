------------------------------- MODULE MCOdus -------------------------------
(***************************************************************************)
(* Odus for TLC: what callers type and administrators write, chosen so     *)
(* that every branch of resolution and matching is taken.                  *)
(***************************************************************************)
EXTENDS Odus

MCNames == {"usr", "bin", "sbin", "local", "sh", "python", "py", "-h", "nul"}

\* "python" begins with "py", everything with itself and with nothing.
MCBegins ==
    {<<"python", "py">>} \cup {<<n, n>> : n \in Parts} \cup {<<n, "">> : n \in Parts}

Bin == Absolute(<<"bin">>)
Sbin == Absolute(<<"sbin">>)
BinSh == Absolute(<<"bin", "sh">>)
SbinSh == Absolute(<<"sbin", "sh">>)
SbinPython == Absolute(<<"sbin", "python">>)
Sh == Relative(<<"sh">>)

MCFiles == {BinSh, SbinSh}

Alice == [user |-> "alice", sid |-> 1, groups |-> {"wheel"}]
Bob == [user |-> "bob", sid |-> 2, groups |-> {}]
MCCallers == {Alice, Bob}

\* sh, sh/., ./sh, the empty word, /bin/sh, //bin/./sh, /sbin/../bin/sh, /,
\* a help flag after the command, a word that is no string, no word at all.
MCCommandLines ==
    {<<w>> : w \in {Sh, Relative(<<"sh", ".">>), Relative(<<".", "sh">>),
                    Relative(<<"">>), BinSh, SbinPython, Absolute(<<"">>),
                    Absolute(<<"", "bin", ".", "sh">>),
                    Absolute(<<"sbin", "..", "bin", "sh">>)}}
    \cup {<<>>, <<Sh, Relative(<<"-h">>)>>, <<Sh, NotUtf8>>}

Allow(user, group, cmd, nopasswd) ==
    [user |-> user, group |-> group, cmd |-> cmd, nopasswd |-> nopasswd]
Config(dirs, rules) ==
    [secure_path |-> dirs, rules |-> rules, window |-> 1, tries |-> 2]

\* A bare name before everything; a path with a star before a malformed rule;
\* a malformed rule before the one that matches; unusable directories.
MCConfigs ==
    {Config(<<Sbin, Other>>,
            <<Allow("alice", Nil, Pattern(Sh, FALSE), TRUE),
              Allow(Nil, "wheel", All, FALSE)>>),
     Config(<<Absolute(<<"bin", ".", "">>), Absolute(<<"">>)>>,
            <<Allow(Nil, "wheel", Pattern(Absolute(<<"bin", "">>), TRUE), FALSE),
              Allow("bob", Nil, Pattern(Relative(<<"">>), TRUE), FALSE),
              Allow("bob", Nil, All, TRUE)>>),
     Config(Other,
            <<Allow("alice", "wheel", Pattern(Relative(<<"sh", "">>), TRUE), FALSE),
              Allow("bob", Nil, Pattern(BinSh, FALSE), FALSE), Other>>),
     Config(<<Absolute(<<"nul">>), Bin>>,
            <<Allow("bob", "wheel", Pattern(Absolute(<<"sbin", "py">>), TRUE), TRUE),
              Allow(Nil, Nil, All, TRUE),
              Allow("bob", Other, All, TRUE)>>),
     Config(<<Bin>>, Other),
     Config(<<Other>>, <<>>),
     Config(<<Bin, Absolute(<<"..", "bin">>)>>, <<Allow("bob", Nil, All, TRUE)>>)}
=============================================================================
