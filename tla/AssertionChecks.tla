---------------------------- MODULE AssertionChecks ----------------------------
(***************************************************************************)
(* The checks of saml/checks.py: what an assertion has to pass before a    *)
(* login is believed.  They look at facts that saml/reader.py has read out *)
(* of the document; None stands for whatever the document leaves out.      *)
(***************************************************************************)
EXTENDS Integers, FiniteSets

CONSTANT None

Instants == Int \cup {None}

(* AssertionFacts, without who the person is.                              *)
Facts(id, request, until) ==
    [id |-> id, status |-> "success", verified |-> TRUE, signed |-> TRUE,
     issuer |-> "provider", audiences |-> {"us"}, destination |-> None,
     notBefore |-> None, notOnOrAfter |-> until, subjectUntil |-> None, recipient |-> "our_acs",
     answers |-> request, subjectAnswers |-> None]

(* Expectations, with the entity ids and addresses of this deployment.     *)
Expectations(request, skew, requireSigned) ==
    [us |-> "us", acs |-> "our_acs", idp |-> "provider", request |-> request,
     skew |-> skew, requireSigned |-> requireSigned]

-----------------------------------------------------------------------------
CheckStatus(f) == f.status = "success"

CheckSignature(f) == f.verified

CheckAssertionSigned(f, e) == e.requireSigned => f.signed

CheckIssuer(f, e) == f.issuer = e.idp

CheckAudience(f, e) == e.us \in f.audiences

CheckDestination(f, e) == f.destination \in {None, e.acs}

Over(until, now, skew) == until # None /\ now - skew >= until

CheckTiming(f, e, now) ==
    /\ f.notBefore = None \/ now + e.skew >= f.notBefore
    /\ ~Over(f.notOnOrAfter, now, e.skew)

CheckSubjectConfirmation(f, e, now) ==
    /\ ~Over(f.subjectUntil, now, e.skew)
    /\ f.recipient \in {None, e.acs}

Quoted(f) == IF f.answers # None THEN f.answers ELSE f.subjectAnswers

(* With nothing expected, only a login the provider started will do; both  *)
(* cases of the code come down to this.                                    *)
CheckInResponseTo(f, e) == Quoted(f) = e.request

CheckNotReplayed(f, seen) == f.id \notin seen

Checks == {"status", "signature", "assertion_signed", "issuer", "audience", "destination",
           "timing", "subject_confirmation", "in_response_to", "not_replayed"}

(* run_all_checks and failed_names: every check runs, whatever failed.     *)
FailedChecks(f, e, now, seen) ==
    {c \in Checks :
        ~ CASE c = "status"               -> CheckStatus(f)
            [] c = "signature"            -> CheckSignature(f)
            [] c = "assertion_signed"     -> CheckAssertionSigned(f, e)
            [] c = "issuer"               -> CheckIssuer(f, e)
            [] c = "audience"             -> CheckAudience(f, e)
            [] c = "destination"          -> CheckDestination(f, e)
            [] c = "timing"               -> CheckTiming(f, e, now)
            [] c = "subject_confirmation" -> CheckSubjectConfirmation(f, e, now)
            [] c = "in_response_to"       -> CheckInResponseTo(f, e)
            [] c = "not_replayed"         -> CheckNotReplayed(f, seen)}

AllPassed(f, e, now, seen) == FailedChecks(f, e, now, seen) = {}
=============================================================================
