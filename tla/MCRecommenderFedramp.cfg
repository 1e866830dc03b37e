SPECIFICATION Spec
CONSTANTS
  Budgets = {0, 50}
  EnvCounts = {1, 2}
  Asked = {"observability_depth", "secret_backend"}
INVARIANT
  FedrampForcesEnterprise
