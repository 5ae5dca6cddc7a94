--------------------------- MODULE ProbeCounters ----------------------------
(***************************************************************************)
(* The two iteration detectors of CERBERScorer.score: card verifications   *)
(* with ever other codes, and queries of a verifier oracle.  A probe is    *)
(* the profile it is about and the code tried on it; a session counts up   *)
(* while enough different probes it remembers are on profiles that begin   *)
(* with the last probe's, and down on every other probe.                   *)
(***************************************************************************)
EXTENDS SessionStore, FiniteSets

CONSTANTS PAYMENT_VARIANTS,   \* how many codes on one card are a brute force (5)
          ORACLE_VARIANTS     \* how many on one fragment, and the count that alarms (3)

ASSUME VariantsAssumption ==
  PAYMENT_VARIANTS \in Nat \ {0} /\ ORACLE_VARIANTS \in Nat \ {0}

VARIABLES recent_payment_attempt_signatures, payment_verification_attempt_count,
          recent_oracle_signatures, oracle_iteration_count

probeVars == << recent_payment_attempt_signatures, payment_verification_attempt_count,
                recent_oracle_signatures, oracle_iteration_count >>

(* A payment is [card, expiry, code], a query is [fragment, code]; expiry  *)
(* and fragment are sequences of parts, for what one of them begins with.  *)
Blank(payment) == payment.card = None /\ payment.expiry = << >> /\ payment.code = None

(* The signature of a variant is compared by startswith and the expiry or  *)
(* the fragment ends the profile, with no delimiter after it: variants of  *)
(* every expiry and every fragment that begin with the probe's count.      *)
SameCard(variant, payment) ==
  variant.card = payment.card /\ IsPrefix(payment.expiry, variant.expiry)

SameFragment(variant, query) == IsPrefix(query.fragment, variant.fragment)

CardVariants(list, payment) == Cardinality({ v \in ToSet(list) : SameCard(v, payment) })

FragmentVariants(list, query) == Cardinality({ v \in ToSet(list) : SameFragment(v, query) })

CountAfter(count, variants, enough) ==
  IF variants >= enough
    THEN IF count + 1 > variants THEN count + 1 ELSE variants
    ELSE IF count > 0 THEN count - 1 ELSE 0

(* c.payment holds the arguments of a payment verification, c.oracle the   *)
(* fragment and the code of an oracle query; both are empty for other      *)
(* tools, c.oracle also when one of the two is missing.                    *)
PaymentStep(c) ==
  LET probes == { p \in c.payment : ~Blank(p) }
  IN  IF probes = {}
        THEN UNCHANGED << recent_payment_attempt_signatures, payment_verification_attempt_count >>
        ELSE \E p \in probes :
               /\ recent_payment_attempt_signatures' =
                    Remember(recent_payment_attempt_signatures, p)
               /\ payment_verification_attempt_count' =
                    CountAfter(payment_verification_attempt_count,
                               CardVariants(recent_payment_attempt_signatures', p),
                               PAYMENT_VARIANTS)

OracleStep(c) ==
  IF c.oracle = {}
    THEN UNCHANGED << recent_oracle_signatures, oracle_iteration_count >>
    ELSE \E q \in c.oracle :
           /\ recent_oracle_signatures' = Remember(recent_oracle_signatures, q)
           /\ oracle_iteration_count' =
                CountAfter(oracle_iteration_count,
                           FragmentVariants(recent_oracle_signatures', q),
                           ORACLE_VARIANTS)

ProbeStep(c) == PaymentStep(c) /\ OracleStep(c)

(* The payment count is looked at on a verification only, the oracle count *)
(* on every call.                                                          *)
ProbeFlagsAlways(c) ==   \* mutant: so is the payment count
  UNION {
    When(payment_verification_attempt_count' >= 1, "payment_verification_bruteforce"),
    When(oracle_iteration_count' >= ORACLE_VARIANTS, "tool_oracle_iteration_risk") }

ProbeFlags(c) ==
  UNION {
    When(c.payment # {} /\ payment_verification_attempt_count' >= 1,
         "payment_verification_bruteforce"),
    When(oracle_iteration_count' >= ORACLE_VARIANTS, "tool_oracle_iteration_risk") }

ProbeInit ==
  /\ recent_payment_attempt_signatures = << >>
  /\ payment_verification_attempt_count = 0
  /\ recent_oracle_signatures = << >>
  /\ oracle_iteration_count = 0
=============================================================================
