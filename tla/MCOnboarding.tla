---------------------------- MODULE MCOnboarding ----------------------------
EXTENDS Onboarding, TLC

CONSTANTS c1, c2

MCOthers ==
    { [role |-> "chrisnat_admin", company |-> {}], [role |-> "client_user", company |-> {}],
      [role |-> "admin", company |-> {c2}], [role |-> "client_preparer", company |-> {c2}] }
MCRows ==
    { [kind |-> "owned", company |-> {c1}, run |-> {}],
      [kind |-> "owned", company |-> {}, run |-> {}],
      [kind |-> "child", company |-> {}, run |-> {c1}],
      [kind |-> "child", company |-> {}, run |-> {c2}],
      [kind |-> "child", company |-> {}, run |-> {}],
      [kind |-> "neither", company |-> {}, run |-> {}] }
Symmetry == Permutations(Operators) \cup Permutations(Invitees)
=============================================================================
