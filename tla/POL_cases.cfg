SPECIFICATION Spec
INVARIANTS RevisionCapped ExternalNeverRaw CriticalIsSecret
PROPERTY NeverMilder
