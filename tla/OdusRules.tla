----------------------------- MODULE OdusRules ------------------------------
(***************************************************************************)
(* rules.rs: one rule of the configuration, a TOML table of strings.  Its  *)
(* cmd is ALL or a text, with or without a star at its end.                *)
(***************************************************************************)
EXTENDS OdusPath

CONSTANTS
    All,        \* the word ALL
    Nil,        \* a field the rule does not have, and nothing otherwise
    Begins    \* <<n, m>>: n begins with m, as strings

ASSUME BeginsAssumption ==
    /\ Begins \subseteq Parts \X Parts
    /\ \A n \in Parts : <<n, n>> \in Begins /\ <<n, "">> \in Begins

Pattern(text, prefix) == [text |-> text, prefix |-> prefix]

\* parse_rule with the field helpers and validate_rule_command: a table, its
\* fields strings, and a cmd that is there and neither empty nor a mere star.
ParseRule(rule) ==
    /\ rule # Other
    /\ rule.user # Other
    /\ rule.group # Other
    /\ rule.cmd \notin {Nil, Other}
    /\ rule.cmd # All => rule.cmd.text # Relative(<<"">>)

\* str::starts_with, between slashes
StartsWith(target, text) ==
    LET n == Len(text.parts) IN
    /\ target.abs = text.abs
    /\ n <= Len(target.parts)
    /\ \A i \in 1..(n - 1) : target.parts[i] = text.parts[i]
    /\ <<target.parts[n], text.parts[n]>> \in Begins

\* A rule that is no path is compared with the last name of the executable.
MatchesRuleCommandByName(cmd, original, resolved) ==
    LET target == IF cmd.text.abs THEN resolved
                  ELSE Relative(<<resolved.parts[Len(resolved.parts)]>>)
    IN  \/ cmd = All
        \/ /\ cmd # All
           /\ IF cmd.prefix THEN StartsWith(target, cmd.text) ELSE target = cmd.text

MatchesRuleCommand(cmd, original, resolved) ==
    \/ cmd = All
    \/ /\ cmd # All
       /\ LET target == IF cmd.text.abs THEN resolved ELSE original
          IN  IF cmd.prefix THEN StartsWith(target, cmd.text) ELSE target = cmd.text

\* The user or one of their groups.
MatchesCaller(rule, caller) ==
    \/ rule.user = caller.user
    \/ rule.group \in caller.groups
=============================================================================
