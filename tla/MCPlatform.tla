----------------------------- MODULE MCPlatform -----------------------------
(***************************************************************************)
(* What stands around the members, one component at a time (focus, as in   *)
(* MCPrograms): consent and deliveries, the token bucket, the intake of    *)
(* purchases, the guards of the routes, the resolution of identities, and  *)
(* the admin console in front of them.                                     *)
(***************************************************************************)
EXTENDS Outreach, TokenBucket, Intake, Access, IdentityResolve, FlowEditor, Editors,
        Console, Desks

VARIABLE focus

(* Two messages: x is sent again by its client with another identifier and is *)
(* also paid for; y comes over a webhook with both, and its payment fails. *)
Sent(m, asked, via, sound) == [message |-> m, idents |-> asked, via |-> via, sound |-> sound]
mcWhat ==
    [s1 |-> Sent("x", {1}, "ingest", "good"), s2 |-> Sent("x", {2}, "ingest", "good"),
     s3 |-> Sent("x", {}, "zalopay", "good"), s4 |-> Sent("y", {1, 2}, "webhook", "good"),
     s5 |-> Sent("y", {}, "vnpay", "unpaid")]

mcFirstRole == [u1 |-> "admin", u2 |-> "csr", k1 |-> "connector"]
mcTried ==
    {<<"auth", "PUT users">>, <<"auth", "users/status">>, <<"auth", "api-keys/revoke">>,
     <<"auth", "DELETE users">>, <<"auth", "DELETE api-keys">>, <<"loyalty", "earn">>,
     <<"mcp", "invoke">>}

(* Strong, Delivery, Fit and Subject are given the same values: one        *)
(* component runs at a time.                                               *)
mcSymmetric == Permutations(Strong)

(* The console treats two pairs alike that it refreshes, fetches, polls and *)
(* fails alike: one of each class is watched.  OwnWritesShown says nothing *)
(* of the pairs in Forgotten.                                              *)
Class(w) == <<w \in Refreshes, w[1] \in FailsAfter, w[2] \in FetchedAnyway, w[2] \in Polled>>
mcWatched ==
    LET pairs == Touches \ Forgotten
    IN  {CHOOSE w \in pairs : Class(w) = c : c \in {Class(w) : w \in pairs}}

platformVars ==
    <<outreachVars, bucketVars, intakeVars, accessVars, resolveVars, flowVars, editorVars,
      consoleVars, deskVars, focus>>

(* A component that does not run starts in one state.                      *)
Init ==
    /\ focus \in {"outreach", "bucket", "intake", "access", "resolve", "flow", "editors",
                  "console", "desks"}
    /\ OutreachInit /\ BucketInit /\ IntakeInit /\ AccessInit /\ ResolveInit /\ FlowInit
    /\ EditorInit /\ ConsoleInit /\ DeskInit
    /\ focus # "editors" => kind = "journey"
    /\ IF focus = "console" THEN watched \in mcWatched ELSE watched = <<"createBrand", "brands">>
    /\ focus # "desks" => desk = "customer"

Next ==
    /\ UNCHANGED focus
    /\ \/ /\ focus = "outreach" /\ OutreachNext
          /\ UNCHANGED <<bucketVars, intakeVars, accessVars, resolveVars, flowVars,
                         editorVars, consoleVars, deskVars>>
       \/ /\ focus = "bucket" /\ BucketNext
          /\ UNCHANGED <<outreachVars, intakeVars, accessVars, resolveVars, flowVars,
                         editorVars, consoleVars, deskVars>>
       \/ /\ focus = "intake" /\ IntakeNext
          /\ UNCHANGED <<outreachVars, bucketVars, accessVars, resolveVars, flowVars,
                         editorVars, consoleVars, deskVars>>
       \/ /\ focus = "access" /\ AccessNext
          /\ UNCHANGED <<outreachVars, bucketVars, intakeVars, resolveVars, flowVars,
                         editorVars, consoleVars, deskVars>>
       \/ /\ focus = "resolve" /\ ResolveNext
          /\ UNCHANGED <<outreachVars, bucketVars, intakeVars, accessVars, flowVars,
                         editorVars, consoleVars, deskVars>>
       \/ /\ focus = "flow" /\ FlowNext
          /\ UNCHANGED <<outreachVars, bucketVars, intakeVars, accessVars, resolveVars,
                         editorVars, consoleVars, deskVars>>
       \/ /\ focus = "editors" /\ EditorNext
          /\ UNCHANGED <<outreachVars, bucketVars, intakeVars, accessVars, resolveVars,
                         flowVars, consoleVars, deskVars>>
       \/ /\ focus = "console" /\ ConsoleNext
          /\ UNCHANGED <<outreachVars, bucketVars, intakeVars, accessVars, resolveVars,
                         flowVars, editorVars, deskVars>>
       \/ /\ focus = "desks" /\ DeskNext
          /\ UNCHANGED <<outreachVars, bucketVars, intakeVars, accessVars, resolveVars,
                         flowVars, editorVars, consoleVars>>

Spec == Init /\ [][Next]_platformVars
=============================================================================
