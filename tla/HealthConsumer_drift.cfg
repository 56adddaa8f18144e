SPECIFICATION HealthLive
PROPERTY StatusReflectsSnapshot
CHECK_DEADLOCK FALSE
