---------------------------- MODULE MCAuditLoop ----------------------------
(* AuditLoop on a small instance: two automatic fixes that undo each other *)
(* (a brings about b and b brings about a), one that shares its write with *)
(* a, a finding for people to fix, one that only a human may fix, a clash  *)
(* whose issue policy withholds, and a profile of every kind.              *)
EXTENDS AuditLoop, TLC

CONSTANTS a, c, b, m, h, g

AllProblems == {a, c, b, m, h, g}
AllRules == {"fill", "other", "manual", "safety", "clash"}
RuleFor == a :> "fill" @@ c :> "fill" @@ b :> "other" @@ m :> "manual" @@ h :> "safety"
             @@ g :> "clash"
StrategyFor == "fill" :> "template" @@ "other" :> "policy"
                 @@ "manual" :> "manual" @@ "safety" :> "llmsafety"
                 @@ "clash" :> "manual"
PolicyFor == [r \in AllRules |-> "auto"]
IssuePolicyFor == [r \in AllRules |-> IF r = "clash" THEN "approve" ELSE "auto"]
Targets == [p \in AllProblems |-> IF p = c THEN a ELSE p]
Pong == a :> {b} @@ c :> {b} @@ b :> {a} @@ m :> {} @@ h :> {} @@ g :> {}
SomeModels == {{a, b, m, h}, {a, c, g}}

Nightly == [name |-> "nightly", propose_only |-> FALSE, dry_run |-> FALSE,
            max_issues |-> 0, dropped |-> {}, unattended |-> FALSE,
            strict |-> FALSE]
Variants ==
  {Nightly,
   [Nightly EXCEPT !.propose_only = TRUE, !.unattended = TRUE],
   [Nightly EXCEPT !.name = "weekly", !.dry_run = TRUE],
   [Nightly EXCEPT !.name = "weekly", !.dry_run = TRUE,
                   !.propose_only = TRUE],
   [Nightly EXCEPT !.max_issues = 1, !.dropped = {"manual"}],
   [Nightly EXCEPT !.dropped = {"fill"}, !.strict = TRUE],
   [Nightly EXCEPT !.dropped = AllRules \ {"clash"}]}
Unattended == {[Nightly EXCEPT !.unattended = TRUE]}
=============================================================================
