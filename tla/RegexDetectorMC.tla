--------------------------- MODULE RegexDetectorMC ---------------------------
(***************************************************************************)
(* All built-in categories, in the order of BuiltinCategories, and two     *)
(* custom patterns: "PROJ-[0-9]{4,6}" and "[A-Z]{3}[0-9]{4}".              *)
(***************************************************************************)
EXTENDS RegexDetector

MCPatterns ==
    <<"anthropic_key", "aws_access_key", "aws_secret_key", "credit_card", "email",
      "gcp_api_key", "generic_api_key_assignment", "github_token", "gitlab_token",
      "iban", "jwt", "openai_key", "phone_intl", "phone_us", "private_key_block",
      "slack_token", "ssn", "stripe_key", "PROJ", "CUST">>
=============================================================================
