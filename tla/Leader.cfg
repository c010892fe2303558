SPECIFICATION ElectionSpec
CONSTANTS
  Nobody = Nobody
  Pods = {p1, p2, p3}
  LeaseDuration = 3
  MaxRenewalFailures = 3
  MaxFaults = 2
  MaxCrashes = 1
  MaxTerms = 2
INVARIANT LeasesSound
PROPERTIES PromptHandover SomeoneLeads
