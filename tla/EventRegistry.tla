--------------------------- MODULE EventRegistry ---------------------------
(***************************************************************************)
(* internal/events/registry.go, the table of the Stalwart event types the  *)
(* program knows, and PassesSeverity of internal/notifications/filter.go.  *)
(***************************************************************************)
EXTENDS Naturals

Severities == {"info", "warning", "alert"}

(* The Severity column of Registry, one operator per value.                *)
WarningTypes == {"auth.error", "auth.failed"}

AlertTypes ==
    {"delivery.failed", "security.abuse-ban", "security.authentication-ban",
     "security.ip-blocked", "server.startup-error"}

InfoTypes ==
    {"auth.success", "delivery.completed", "delivery.delivered", "server.startup"}

SupportedTypes == WarningTypes \cup AlertTypes \cup InfoTypes

IsSupported(type) == type \in SupportedTypes

(* A type that is not registered counts as informational.                  *)
EventSeverity(type) ==
    CASE type \in AlertTypes   -> "alert"
      [] type \in WarningTypes -> "warning"
      [] OTHER                 -> "info"

(* Any other string ranks lowest.                                          *)
SeverityRank(severity) ==
    CASE severity = "alert"   -> 2
      [] severity = "warning" -> 1
      [] OTHER                -> 0

PassesSeverity(type, minSeverity) ==
    SeverityRank(EventSeverity(type)) >= SeverityRank(minSeverity)
=============================================================================
